---- MODULE Spec2Model ----
(***************************************************************************)
(* Analytics core of the negative-space imaging project:                   *)
(*   - EventBus          (analytics/core/events.py)                        *)
(*   - MetricsCollector  (analytics/core/metrics.py)                       *)
(*   - MetricsAggregator (analytics/core/metrics.py)                       *)
(*   - StreamProcessor   (analytics/processors/streaming.py)               *)
(*   - StatisticalAnalyzer (analytics/algorithms/statistical.py)           *)
(*   - AnomalyDetector   (analytics/algorithms/anomaly_detection.py)       *)
(* PublishSpec runs the publishing side of the bus (publish, the run loop,  *)
(* clear_seen_ids), DispatchSpec its subscription side (subscribe,         *)
(* unsubscribe, dispatch), CollectorSpec the metrics collector,            *)
(* AggregatorSpec the aggregator, StreamSpec the stream processor and      *)
(* SustainedSpec the session processor under endless arrivals; TimerSpec   *)
(* is the timer loop of the stream processor on sliding and session        *)
(* windows, RunSpec the run loop of the bus with cancelled dispatches,     *)
(* PersistentSpec the collector against a repository that keeps failing,   *)
(* InterleavedSpec the collector with its suspension points, AnalyzerSpec  *)
(* the statistical analyzer, TrendSpec its trend detection, DetectorSpec   *)
(* the anomaly detector, PeriodSpec the aggregator over a filled in-memory *)
(* repository, ProducersSpec and StatsSpec concurrent producer tasks, and  *)
(* LoopSpec the run loop with its handler tasks; the variables a           *)
(* specification does not use keep their initial value.                    *)
(***************************************************************************)
EXTENDS Integers, Sequences, FiniteSets, TLC

(***************************************************************************)
(* Bounds of the model.                                                    *)
(***************************************************************************)
MaxQueueSize == 2
MaxEventIds == 2
MaxPublishCalls == 3
NumSubscribers == 2
MaxRegistrations == 2
MaxBatchSize == 3
MaxMetrics == 5
MaxBatchLen == 4
MaxFlushErrors == 2
MaxValues == 3
MaxValue == 3
MaxAggregations == 2
MaxElements == 3
MaxStreamErrors == 1
MaxBuffered == 1
MaxBufferSize == 2
MaxSamples == 4
MaxSample == 3
MaxAnalyses == 1
MaxTail == 3
MaxAnomaliesDetected == 1
NumProducers == 3
MaxTimestamp == 2

(***************************************************************************)
(* EventBus state (EventBus.__init__) and what the last caller observed.   *)
(***************************************************************************)
VARIABLES
    max_queue_size,      \* self.max_queue_size, maxsize of the asyncio.Queue
    event_queue,         \* self.event_queue, FIFO of accepted events
    subscribers,         \* self._subscribers: event type -> list of subscribers
    all_subscribers,     \* self._all_subscribers: wildcard list
    seen_event_ids,      \* self._seen_event_ids
    published_count,     \* self._published_count
    duplicated_count,    \* self._duplicated_count
    failed_count,        \* self._failed_count
    processed_at,        \* ids of the events whose processed_at run() has set
    publish_result,      \* outcome of the last publish: "True", "False", "QueueFull"
    received,            \* subscribers whose handle_event the last dispatch invoked, in order
    dispatch_raised,     \* whether the last dispatch raised to its caller
    handler_errors       \* subscribers the last dispatch logged as failed

busVars == <<max_queue_size, event_queue, subscribers, all_subscribers,
             seen_event_ids, published_count, duplicated_count, failed_count,
             processed_at, publish_result, received, dispatch_raised,
                   handler_errors>>

(***************************************************************************)
(* MetricsCollector state (MetricsCollector.__init__), its repository and  *)
(* what the callers observed.  A metric is named by the ordinal of its     *)
(* collection, so that loss, duplication and reordering are visible.       *)
(***************************************************************************)
VARIABLES
    batch_size,          \* self.batch_size
    buffer,              \* self._buffer
    metrics_collected,   \* self._metrics_collected
    batches_flushed,     \* self._batches_flushed
    flush_errors,        \* self._flush_errors
    lock,                \* self._lock: "free", or held by a collect_batch in its flush loop
    repository_kind,     \* "in_memory" (stores every batch) or "fallible"
    repository_metrics,  \* the metrics the repository holds, in storage order
    save_calls,          \* the save_metrics_batch calls so far: slice handed over and outcome
    flush_return,        \* return value of the last _flush_buffer
    collector_raised,    \* whether the last collector call raised to its caller
    collected,           \* the metrics handed to collect / collect_batch, in order
    run_task,            \* the task running MetricsCollector.run: "not_started", "running", "exited"
    only_collect,        \* TRUE while collect has been the only operation called
    pending_saves        \* the save_metrics_batch calls awaited right now: who awaits, and the slice

collectorVars == <<batch_size, buffer, metrics_collected, batches_flushed,
                   flush_errors, lock, repository_kind, repository_metrics,
                   save_calls, flush_return, collector_raised, collected,
                   run_task, only_collect, pending_saves>>

(***************************************************************************)
(* MetricsAggregator state (MetricsAggregator.__init__) and what the last  *)
(* aggregate_period call saw and returned.  A metric is reduced to its     *)
(* value.                                                                  *)
(***************************************************************************)
VARIABLES
    aggregations_created, \* self._aggregations_created
    aggregation_errors,   \* self._aggregation_errors
    period_metrics,       \* values of the metrics get_metrics returned to the last call
    aggregate_result,     \* Optional[AggregatedMetric] of the last call: <<>> is None
    stored_metrics,       \* InMemoryMetricsRepository.metrics: timestamp and value of each
    period_results        \* per aggregated period: the metrics get_metrics returned and the count

aggregatorVars == <<aggregations_created, aggregation_errors, period_metrics,
                    aggregate_result, stored_metrics, period_results>>

(***************************************************************************)
(* StreamProcessor state (StreamProcessor.__init__), the clock its         *)
(* timestamps are read from, and what the window handler was handed.       *)
(* Timestamps are whole seconds: the routing decisions of the tumbling     *)
(* router read nothing finer.                                              *)
(***************************************************************************)
VARIABLES
    config,               \* self.config, a WindowConfig
    max_buffer_size,      \* self.max_buffer_size
    stream_buffer,        \* self._buffer, the intake asyncio.Queue
    windows,              \* self._windows: the dict as (window_id, elements) pairs in insertion order
    running,              \* self._running
    elements_processed,   \* self._elements_processed
    windows_created,      \* self._windows_created
    stream_errors,        \* self._errors
    stream_task,          \* the task in process_stream: "not_started", "waiting", "returned", "raised"
    clock,                \* datetime.utcnow()
    elements_added,       \* how many elements add_element has queued
    emitted,              \* the handler's invocations: window id and the list handed over
    stop_called           \* whether stop() has been called on the processor

streamVars == <<config, max_buffer_size, stream_buffer, windows, running, elements_processed,
                windows_created, stream_errors, stream_task, clock,
                elements_added, emitted, stop_called>>

(***************************************************************************)
(* StatisticalAnalyzer state and the arguments and result of its last      *)
(* detect_outliers_iqr call.                                               *)
(***************************************************************************)
VARIABLES
    analyses_performed,   \* self._analyses_performed
    sample_values,        \* the values the caller analyses
    sample_multiplier,    \* the multiplier of the last call, in halves (3 is 1.5)
    outliers,             \* what the last detect_outliers_iqr returned
    trend_metrics,        \* the values of the metrics handed to detect_trend
    trend_result          \* what detect_trend returned

analyzerVars == <<analyses_performed, sample_values, sample_multiplier, outliers,
                  trend_metrics, trend_result>>

(***************************************************************************)
(* AnomalyDetector state, the series it is given, and the last call with   *)
(* its result.                                                             *)
(***************************************************************************)
VARIABLES
    zscore_threshold,     \* self.zscore_threshold
    anomalies_detected,   \* self._anomalies_detected
    detector_metrics,     \* the metrics list the caller passes
    detect_call,          \* the last call: its name and arguments
    anomalies             \* the list the last call returned

detectorVars == <<zscore_threshold, anomalies_detected, detector_metrics,
                  detect_call, anomalies>>

(***************************************************************************)
(* Producer tasks: asyncio tasks that each call EventBus.publish once.     *)
(***************************************************************************)
VARIABLES
    producer_events,     \* the event each producer task publishes
    producer_results,    \* what its publish gave: "pending", "True", "False", "QueueFull"
    accepted,            \* ids of the events publish put into the queue, in order
    pulled,              \* ids of the events the run() task took from the queue, in order
    handler_tasks,       \* per pulled event, the handle_event tasks of its dispatch that are alive
    run_pc               \* the run() task: "waiting" in get, or "dispatching" in the gather

producerVars == <<producer_events, producer_results, accepted, pulled,
                  handler_tasks, run_pc>>

vars == <<busVars, collectorVars, aggregatorVars, streamVars, analyzerVars,
          detectorVars, producerVars>>

(***************************************************************************)
(* Values.                                                                 *)
(***************************************************************************)
EventIds == 1..MaxEventIds
EventTypes == {"metric_collected", "anomaly_detected"}
Sources == {"", "test"}
Subscribers == 1..NumSubscribers

\* An Event, reduced to the fields publish, validate and dispatch read.
\* payload_is_dict / metadata_is_dict stand for isinstance(..., dict).
Events ==
    [event_id : EventIds,
     event_type : EventTypes \cup {""},
     source : Sources,
     payload_is_dict : BOOLEAN,
     metadata_is_dict : BOOLEAN]

\* The events handed to dispatch directly: dispatch reads event_type only,
\* so one event per type (the empty type included) is enough.
DispatchedEvents ==
    {e \in Events : e.event_id = 1 /\ e.source = "test"
                    /\ e.payload_is_dict /\ e.metadata_is_dict}

\* Event.validate: no validation error is recorded.
validate(e) ==
    LET validation_errors ==
            (IF e.event_type = "" THEN {"event_type is required"} ELSE {})
            \cup (IF e.source = "" THEN {"source is required"} ELSE {})
            \cup (IF ~e.payload_is_dict THEN {"payload must be a dictionary"} ELSE {})
            \cup (IF ~e.metadata_is_dict THEN {"metadata must be a dictionary"} ELSE {})
    IN  validation_errors = {}

\* Variant: the capacity test lets one event too many in.
queue_full_off_by_one(queue, maxsize) ==
    IF maxsize <= 0 THEN FALSE ELSE Len(queue) > maxsize

\* asyncio.Queue.full(): a maxsize <= 0 means an unbounded queue.
queue_full(queue, maxsize) ==
    IF maxsize <= 0 THEN FALSE ELSE Len(queue) >= maxsize

\* list.remove(x): removes the first occurrence only.
RECURSIVE list_remove(_, _)
list_remove(list, x) ==
    IF list = <<>> THEN <<>>
    ELSE IF Head(list) = x THEN Tail(list)
    ELSE <<Head(list)>> \o list_remove(Tail(list), x)

InList(list, x) == \E i \in 1..Len(list) : list[i] = x

CountIn(list, x) == Cardinality({i \in 1..Len(list) : list[i] = x})

\* Variant: publish without the duplicate check.
publish_call_no_dedup(e, queue, seen, maxsize) ==
    IF ~validate(e)
    THEN [ret |-> "False", queue |-> queue, seen |-> seen,
          published |-> 0, duplicated |-> 0, failed |-> 1]
    ELSE IF queue_full(queue, maxsize)
    THEN [ret |-> "QueueFull", queue |-> queue, seen |-> seen \cup {e.event_id},
          published |-> 0, duplicated |-> 0, failed |-> 1]
    ELSE [ret |-> "True", queue |-> Append(queue, e), seen |-> seen \cup {e.event_id},
          published |-> 1, duplicated |-> 0, failed |-> 0]

\* Variant: publish records the event id before it validates the event.
publish_call_id_first(e, queue, seen, maxsize) ==
    IF e.event_id \in seen
    THEN [ret |-> "False", queue |-> queue, seen |-> seen,
          published |-> 0, duplicated |-> 1, failed |-> 0]
    ELSE IF ~validate(e)
    THEN [ret |-> "False", queue |-> queue, seen |-> seen \cup {e.event_id},
          published |-> 0, duplicated |-> 0, failed |-> 1]
    ELSE IF queue_full(queue, maxsize)
    THEN [ret |-> "QueueFull", queue |-> queue, seen |-> seen \cup {e.event_id},
          published |-> 0, duplicated |-> 0, failed |-> 1]
    ELSE [ret |-> "True", queue |-> Append(queue, e), seen |-> seen \cup {e.event_id},
          published |-> 1, duplicated |-> 0, failed |-> 0]

\* Variant: a publish turned away by a full queue is not counted.
publish_call_full_uncounted(e, queue, seen, maxsize) ==
    IF ~validate(e)
    THEN [ret |-> "False", queue |-> queue, seen |-> seen,
          published |-> 0, duplicated |-> 0, failed |-> 1]
    ELSE IF e.event_id \in seen
    THEN [ret |-> "False", queue |-> queue, seen |-> seen,
          published |-> 0, duplicated |-> 1, failed |-> 0]
    ELSE IF queue_full(queue, maxsize)
    THEN [ret |-> "QueueFull", queue |-> queue, seen |-> seen \cup {e.event_id},
          published |-> 0, duplicated |-> 0, failed |-> 0]
    ELSE [ret |-> "True", queue |-> Append(queue, e), seen |-> seen \cup {e.event_id},
          published |-> 1, duplicated |-> 0, failed |-> 0]

\* Variant: an id counts as a duplicate only while its event is queued.
publish_call_dedup_queued(e, queue, seen, maxsize) ==
    IF ~validate(e)
    THEN [ret |-> "False", queue |-> queue, seen |-> seen,
          published |-> 0, duplicated |-> 0, failed |-> 1]
    ELSE IF \E i \in 1..Len(queue) : queue[i].event_id = e.event_id
    THEN [ret |-> "False", queue |-> queue, seen |-> seen,
          published |-> 0, duplicated |-> 1, failed |-> 0]
    ELSE IF queue_full(queue, maxsize)
    THEN [ret |-> "QueueFull", queue |-> queue, seen |-> seen \cup {e.event_id},
          published |-> 0, duplicated |-> 0, failed |-> 1]
    ELSE [ret |-> "True", queue |-> Append(queue, e), seen |-> seen \cup {e.event_id},
          published |-> 1, duplicated |-> 0, failed |-> 0]

(***************************************************************************)
(* EventBus.publish, as a function of the event and the bus state.         *)
(***************************************************************************)
publish_call(e, queue, seen, maxsize) ==
    IF ~validate(e)
    THEN [ret |-> "False", queue |-> queue, seen |-> seen,
          published |-> 0, duplicated |-> 0, failed |-> 1]
    ELSE IF e.event_id \in seen
    THEN [ret |-> "False", queue |-> queue, seen |-> seen,
          published |-> 0, duplicated |-> 1, failed |-> 0]
    ELSE IF queue_full(queue, maxsize)
    THEN [ret |-> "QueueFull", queue |-> queue, seen |-> seen \cup {e.event_id},
          published |-> 0, duplicated |-> 0, failed |-> 1]
    ELSE [ret |-> "True", queue |-> Append(queue, e), seen |-> seen \cup {e.event_id},
          published |-> 1, duplicated |-> 0, failed |-> 0]

publish(e) ==
    /\ UNCHANGED <<producerVars, collectorVars, aggregatorVars, streamVars, analyzerVars, detectorVars>>
    /\ published_count + duplicated_count + failed_count < MaxPublishCalls
    /\ LET r == publish_call(e, event_queue, seen_event_ids, max_queue_size)
       IN  /\ event_queue' = r.queue
           /\ seen_event_ids' = r.seen
           /\ published_count' = published_count + r.published
           /\ duplicated_count' = duplicated_count + r.duplicated
           /\ failed_count' = failed_count + r.failed
           /\ publish_result' = r.ret
    /\ UNCHANGED <<max_queue_size, subscribers, all_subscribers, processed_at,
                   received, dispatch_raised,
                   handler_errors>>

\* The events of the producer tasks: one valid event per id, and an event
\* without a source.
ProducerEvents ==
    {e \in Events : /\ e.event_type = "metric_collected"
                    /\ e.payload_is_dict /\ e.metadata_is_dict
                    /\ (e.source = "" => e.event_id = 1)}

Producers == 1..NumProducers

\* Producer task p is scheduled and calls publish.  The body of publish
\* holds no await, so the task runs it to its return (or to the raise of
\* QueueFull) before the event loop schedules any other task.
produce(p) ==
    /\ UNCHANGED <<collectorVars, aggregatorVars, streamVars, analyzerVars, detectorVars>>
    /\ p \in DOMAIN producer_events
    /\ producer_results[p] = "pending"
    /\ LET r == publish_call(producer_events[p], event_queue, seen_event_ids,
                             max_queue_size)
       IN  /\ event_queue' = r.queue
           /\ seen_event_ids' = r.seen
           /\ published_count' = published_count + r.published
           /\ duplicated_count' = duplicated_count + r.duplicated
           /\ failed_count' = failed_count + r.failed
           /\ publish_result' = r.ret
           /\ producer_results' = [producer_results EXCEPT ![p] = r.ret]
           /\ accepted' = IF r.published = 1
                          THEN Append(accepted, producer_events[p].event_id)
                          ELSE accepted
    /\ UNCHANGED <<max_queue_size, subscribers, all_subscribers, processed_at,
                   received, dispatch_raised, handler_errors, producer_events,
                   pulled, handler_tasks, run_pc>>

\* EventBus.clear_seen_ids
clear_seen_ids ==
    /\ UNCHANGED <<producerVars, collectorVars, aggregatorVars, streamVars, analyzerVars, detectorVars>>
    /\ seen_event_ids # {}
    /\ seen_event_ids' = {}
    /\ UNCHANGED <<max_queue_size, event_queue, subscribers, all_subscribers,
                   published_count, duplicated_count, failed_count,
                   processed_at, publish_result, received, dispatch_raised,
                   handler_errors>>

(***************************************************************************)
(* subscribe / unsubscribe                                                 *)
(***************************************************************************)
Registrations ==
    Len(all_subscribers)
    + Len(subscribers["metric_collected"]) + Len(subscribers["anomaly_detected"])

subscribe_call(event_type, subscriber, subs, all) ==
    IF event_type = ""
    THEN [subs |-> subs, all |-> Append(all, subscriber)]
    ELSE [subs |-> [subs EXCEPT ![event_type] = Append(@, subscriber)], all |-> all]

subscribe(event_type, subscriber) ==
    /\ UNCHANGED <<producerVars, collectorVars, aggregatorVars, streamVars, analyzerVars, detectorVars>>
    /\ Registrations < MaxRegistrations
    /\ LET r == subscribe_call(event_type, subscriber, subscribers, all_subscribers)
       IN  /\ subscribers' = r.subs
           /\ all_subscribers' = r.all
    /\ UNCHANGED <<max_queue_size, event_queue, seen_event_ids, published_count,
                   duplicated_count, failed_count, processed_at, publish_result,
                   received, dispatch_raised,
                   handler_errors>>

unsubscribe_call(event_type, subscriber, subs, all) ==
    IF event_type = ""
    THEN [subs |-> subs,
          all |-> IF InList(all, subscriber) THEN list_remove(all, subscriber) ELSE all]
    ELSE [subs |-> IF InList(subs[event_type], subscriber)
                   THEN [subs EXCEPT ![event_type] = list_remove(@, subscriber)]
                   ELSE subs,
          all |-> all]

unsubscribe(event_type, subscriber) ==
    /\ UNCHANGED <<producerVars, collectorVars, aggregatorVars, streamVars, analyzerVars, detectorVars>>
    /\ LET r == unsubscribe_call(event_type, subscriber, subscribers, all_subscribers)
       IN  /\ subscribers' = r.subs
           /\ all_subscribers' = r.all
    /\ UNCHANGED <<max_queue_size, event_queue, seen_event_ids, published_count,
                   duplicated_count, failed_count, processed_at, publish_result,
                   received, dispatch_raised,
                   handler_errors>>

(***************************************************************************)
(* dispatch: the subscribers resolved for an event, and the fan-out with   *)
(* asyncio.gather with return_exceptions=True.  failing is the set of     *)
(* subscribers whose handle_event raises for this event.                   *)
(***************************************************************************)
resolve(event_type, subs, all) ==
    (IF event_type \in DOMAIN subs THEN subs[event_type] ELSE <<>>) \o all

\* Variant: the handlers are awaited one after the other and the first
\* exception ends the dispatch.
gather_sequential(tasks, failing) ==
    LET bad == {j \in 1..Len(tasks) : tasks[j] \in failing}
        first == IF bad = {} THEN Len(tasks)
                 ELSE CHOOSE j \in bad : \A k \in bad : j <= k
    IN  [received |-> SubSeq(tasks, 1, first), raised |-> bad # {},
         errors |-> IF bad = {} THEN {} ELSE {tasks[first]}]

gather(tasks, failing) ==
    [received |-> tasks, raised |-> FALSE,
     errors |-> {tasks[i] : i \in {j \in 1..Len(tasks) : tasks[j] \in failing}}]

dispatch_call(e, failing, subs, all) ==
    LET resolved == resolve(e.event_type, subs, all)
    IN  IF resolved = <<>>
        THEN [received |-> <<>>, raised |-> FALSE, errors |-> {}]
        ELSE gather(resolved, failing)

dispatch(e, failing) ==
    /\ UNCHANGED <<producerVars, collectorVars, aggregatorVars, streamVars, analyzerVars, detectorVars>>
    /\ LET r == dispatch_call(e, failing, subscribers, all_subscribers)
       IN  /\ received' = r.received
           /\ dispatch_raised' = r.raised
           /\ handler_errors' = r.errors
    /\ UNCHANGED <<max_queue_size, event_queue, subscribers, all_subscribers,
                   seen_event_ids, published_count, duplicated_count,
                   failed_count, processed_at, publish_result>>

\* One iteration of EventBus.run that obtains an event: get, mark processed,
\* dispatch, task_done.  (The timeout branch changes nothing.)
run_iteration(failing) ==
    /\ UNCHANGED <<producerVars, collectorVars, aggregatorVars, streamVars, analyzerVars, detectorVars>>
    /\ event_queue # <<>>
    /\ LET event == Head(event_queue)
           r == dispatch_call(event, failing, subscribers, all_subscribers)
       IN  /\ event_queue' = Tail(event_queue)
           /\ processed_at' = processed_at \cup {event.event_id}
           /\ received' = r.received
           /\ dispatch_raised' = r.raised
           /\ handler_errors' = r.errors
    /\ UNCHANGED <<max_queue_size, subscribers, all_subscribers, seen_event_ids,
                   published_count, duplicated_count, failed_count, publish_result>>

\* asyncio.gather when the task awaiting it is cancelled: the handlers run as
\* tasks in list order, those that had not started never run their body.
gather_cancelled(tasks, started) ==
    [received |-> SubSeq(tasks, 1, started), raised |-> TRUE, errors |-> {}]

\* One iteration of EventBus.run that obtains an event and is cancelled while
\* dispatch awaits the gather: the CancelledError leaves dispatch and run, the
\* event is not put back and task_done is not reached.
run_iteration_cancelled(started) ==
    /\ UNCHANGED <<producerVars, collectorVars, aggregatorVars, streamVars, analyzerVars, detectorVars>>
    /\ event_queue # <<>>
    /\ LET event == Head(event_queue)
           resolved == resolve(event.event_type, subscribers, all_subscribers)
           r == gather_cancelled(resolved, started)
       IN  /\ resolved # <<>>
           /\ started \in 0..Len(resolved)
           /\ event_queue' = Tail(event_queue)
           /\ processed_at' = processed_at \cup {event.event_id}
           /\ received' = r.received
           /\ dispatch_raised' = r.raised
           /\ handler_errors' = r.errors
    /\ UNCHANGED <<max_queue_size, subscribers, all_subscribers, seen_event_ids,
                   published_count, duplicated_count, failed_count, publish_result>>

(***************************************************************************)
(* EventBus.run with the handle_event tasks of a dispatch as tasks of      *)
(* their own: the gather creates one task per resolved subscriber, the     *)
(* event loop starts them in that order, each ends by returning or         *)
(* raising, and dispatch goes on when the gather is done.                  *)
(***************************************************************************)
Finished(task) == task.state \in {"done", "failed"}

\* Variant: the gather returns with the first handler that ends.
gather_done_first(tasks) == \E i \in 1..Len(tasks) : Finished(tasks[i])

\* asyncio.gather(..., return_exceptions=True) is done when every task is.
gather_done(tasks) == \A i \in 1..Len(tasks) : Finished(tasks[i])

\* run(): get returns an event, processed_at is set, dispatch resolves the
\* subscribers and, if there are any, awaits the gather of their handlers.
loop_get ==
    /\ UNCHANGED <<collectorVars, aggregatorVars, streamVars, analyzerVars, detectorVars>>
    /\ run_pc = "waiting"
    /\ event_queue # <<>>
    /\ LET event == Head(event_queue)
           resolved == resolve(event.event_type, subscribers, all_subscribers)
       IN  /\ event_queue' = Tail(event_queue)
           /\ processed_at' = processed_at \cup {event.event_id}
           /\ pulled' = Append(pulled, event.event_id)
           /\ handler_tasks' =
                 Append(handler_tasks,
                        [i \in 1..Len(resolved) |->
                            [subscriber |-> resolved[i], state |-> "created"]])
           /\ run_pc' = IF resolved = <<>> THEN "waiting" ELSE "dispatching"
    /\ UNCHANGED <<max_queue_size, subscribers, all_subscribers, seen_event_ids,
                   published_count, duplicated_count, failed_count, publish_result,
                   received, dispatch_raised, handler_errors,
                   producer_events, producer_results, accepted>>

\* The event loop starts handler task i of pulled event k: tasks start in
\* the order of their creation.
handler_start(k, i) ==
    /\ UNCHANGED <<busVars, collectorVars, aggregatorVars, streamVars, analyzerVars, detectorVars>>
    /\ k \in 1..Len(handler_tasks)
    /\ i \in 1..Len(handler_tasks[k])
    /\ handler_tasks[k][i].state = "created"
    /\ \A j \in 1..(i - 1) : handler_tasks[k][j].state # "created"
    /\ handler_tasks' = [handler_tasks EXCEPT ![k][i].state = "running"]
    /\ UNCHANGED <<producer_events, producer_results, accepted, pulled, run_pc>>

\* handle_event of task i returns, or raises.
handler_end(k, i, raises) ==
    /\ UNCHANGED <<busVars, collectorVars, aggregatorVars, streamVars, analyzerVars, detectorVars>>
    /\ k \in 1..Len(handler_tasks)
    /\ i \in 1..Len(handler_tasks[k])
    /\ handler_tasks[k][i].state = "running"
    /\ handler_tasks' = [handler_tasks EXCEPT
                            ![k][i].state = IF raises THEN "failed" ELSE "done"]
    /\ UNCHANGED <<producer_events, producer_results, accepted, pulled, run_pc>>

\* The gather is done: dispatch logs the failures and returns, run() calls
\* task_done and goes back to get.  The ended tasks are gone with their
\* results; a task that has not ended would live on.
loop_dispatched ==
    /\ UNCHANGED <<collectorVars, aggregatorVars, streamVars, analyzerVars, detectorVars>>
    /\ run_pc = "dispatching"
    /\ LET tasks == handler_tasks[Len(handler_tasks)]
       IN  /\ gather_done(tasks)
           /\ received' = [i \in 1..Len(tasks) |-> tasks[i].subscriber]
           /\ handler_errors' = {tasks[i].subscriber :
                                   i \in {j \in 1..Len(tasks) : tasks[j].state = "failed"}}
           /\ dispatch_raised' = FALSE
           /\ handler_tasks' =
                 [handler_tasks EXCEPT ![Len(handler_tasks)] =
                     SelectSeq(tasks, LAMBDA task : ~Finished(task))]
    /\ run_pc' = "waiting"
    /\ UNCHANGED <<max_queue_size, event_queue, subscribers, all_subscribers,
                   seen_event_ids, published_count, duplicated_count, failed_count,
                   processed_at, publish_result,
                   producer_events, producer_results, accepted, pulled>>

(***************************************************************************)
(* EventBus specifications.                                                *)
(***************************************************************************)
BusVarsInit ==
    /\ max_queue_size \in 1..MaxQueueSize
    /\ event_queue = <<>>
    /\ subscribers = [t \in EventTypes |-> <<>>]
    /\ all_subscribers = <<>>
    /\ seen_event_ids = {}
    /\ published_count = 0
    /\ duplicated_count = 0
    /\ failed_count = 0
    /\ processed_at = {}
    /\ publish_result = "none"
    /\ received = <<>>
    /\ dispatch_raised = FALSE
    /\ handler_errors = {}
    /\ producer_events \in UNION {[1..n -> ProducerEvents] : n \in 0..NumProducers}
    /\ producer_results = [p \in DOMAIN producer_events |-> "pending"]
    /\ accepted = <<>>
    /\ pulled = <<>>
    /\ handler_tasks = <<>>
    /\ run_pc = "waiting"

\* EventBus.get_stats
get_stats ==
    [published |-> published_count,
     duplicated |-> duplicated_count,
     failed |-> failed_count,
     queue_size |-> Len(event_queue)]

\* Producer tasks publish and the run() task pulls; nobody has subscribed,
\* so a dispatch returns at once.
StatsNext ==
    \/ \E p \in Producers : produce(p)
    \/ loop_get

\* Producer tasks publish while the run() task pulls events.
ProducersNext ==
    \/ \E p \in Producers : produce(p)
    \/ run_iteration({})

\* Subscribers register for every event type, producer tasks publish, and
\* the single run() task pulls and dispatches.
LoopNext ==
    \/ \E s \in Subscribers : subscribe("", s)
    \/ \E p \in Producers : produce(p)
    \/ loop_get
    \/ \E k \in Producers, i \in 1..MaxRegistrations : handler_start(k, i)
    \/ \E k \in Producers, i \in 1..MaxRegistrations, raises \in BOOLEAN :
            handler_end(k, i, raises)
    \/ loop_dispatched

PublishNext ==
    \/ \E e \in Events : publish(e)
    \/ clear_seen_ids
    \/ \E failing \in SUBSET Subscribers : run_iteration(failing)

\* well-formed events of every type and id
RunEvents ==
    {e \in Events : e.source = "test" /\ e.payload_is_dict /\ e.metadata_is_dict}

\* The bus with its run() task: subscribers register, events are published,
\* the loop dispatches them, and the task can be cancelled (shutdown).
RunNext ==
    \/ \E t \in EventTypes \cup {""}, s \in Subscribers : subscribe(t, s)
    \/ \E e \in RunEvents : publish(e)
    \/ \E failing \in SUBSET Subscribers : run_iteration(failing)
    \/ \E started \in 0..MaxRegistrations : run_iteration_cancelled(started)

DispatchNext ==
    \/ \E t \in EventTypes \cup {""}, s \in Subscribers : subscribe(t, s)
    \/ \E t \in EventTypes \cup {""}, s \in Subscribers : unsubscribe(t, s)
    \/ \E e \in DispatchedEvents, failing \in SUBSET Subscribers : dispatch(e, failing)

(***************************************************************************)
(* MetricsCollector.                                                       *)
(***************************************************************************)
Min(a, b) == IF a <= b THEN a ELSE b

\* Python slices list[:n] and list[n:] for n >= 0.
slice_to(list, n) == SubSeq(list, 1, Min(n, Len(list)))

slice_from(list, n) == SubSeq(list, Min(n, Len(list)) + 1, Len(list))

\* What one call of repository.save_metrics_batch can do: "saved" stores the
\* batch and returns its length (InMemoryMetricsRepository), "zero" stores
\* nothing and returns 0 (TimeSeriesDatabase.insert_metrics_batch on an
\* error), "raise" raises.
save_outcomes(kind) ==
    IF kind = "in_memory" THEN {"saved"} ELSE {"saved", "zero", "raise"}

\* _flush_buffer with a given treatment of the buffer after a save that
\* returned (on_success) and after a save that raised (on_error).
flush_buffer_with(buf, bs, outcome, on_success, on_error) ==
    IF buf = <<>>
    THEN [buffer |-> buf, called |-> FALSE, slice |-> <<>>, stored |-> <<>>,
          flushed |-> 0, errors |-> 0, ret |-> 0, raised |-> FALSE]
    ELSE LET metrics_to_flush == slice_to(buf, bs)
         IN  IF outcome = "raise"
             THEN [buffer |-> on_error, called |-> TRUE, slice |-> metrics_to_flush,
                   stored |-> <<>>, flushed |-> 0, errors |-> 1, ret |-> 0,
                   raised |-> FALSE]
             ELSE [buffer |-> on_success, called |-> TRUE,
                   slice |-> metrics_to_flush,
                   stored |-> IF outcome = "saved" THEN metrics_to_flush ELSE <<>>,
                   flushed |-> 1, errors |-> 0,
                   ret |-> IF outcome = "saved" THEN Len(metrics_to_flush) ELSE 0,
                   raised |-> FALSE]

\* Variant: a successful flush empties the whole buffer.
flush_buffer_clear_all(buf, bs, outcome) ==
    flush_buffer_with(buf, bs, outcome, <<>>, buf)

\* Variant: a failed flush empties the whole buffer.
flush_buffer_error_clears(buf, bs, outcome) ==
    flush_buffer_with(buf, bs, outcome, slice_from(buf, bs), <<>>)

\* Variant: a failed flush drops the attempted slice.
flush_buffer_error_drops_slice(buf, bs, outcome) ==
    flush_buffer_with(buf, bs, outcome, slice_from(buf, bs), slice_from(buf, bs))

\* MetricsCollector._flush_buffer on buffer buf, the repository answering
\* with outcome.  called: whether save_metrics_batch was called.
flush_buffer(buf, bs, outcome) ==
    IF buf = <<>>
    THEN [buffer |-> buf, called |-> FALSE, slice |-> <<>>, stored |-> <<>>,
          flushed |-> 0, errors |-> 0, ret |-> 0, raised |-> FALSE]
    ELSE LET metrics_to_flush == slice_to(buf, bs)
         IN  IF outcome = "raise"
             THEN [buffer |-> buf, called |-> TRUE, slice |-> metrics_to_flush,
                   stored |-> <<>>, flushed |-> 0, errors |-> 1, ret |-> 0,
                   raised |-> FALSE]
             ELSE [buffer |-> slice_from(buf, bs), called |-> TRUE,
                   slice |-> metrics_to_flush,
                   stored |-> IF outcome = "saved" THEN metrics_to_flush ELSE <<>>,
                   flushed |-> 1, errors |-> 0,
                   ret |-> IF outcome = "saved" THEN Len(metrics_to_flush) ELSE 0,
                   raised |-> FALSE]

\* Variant: the flush condition is tested with > instead of >=.
should_flush_strict(buf, bs) == Len(buf) > bs

\* The flush condition of collect and collect_batch.
should_flush(buf, bs) == Len(buf) >= bs

\* The effect of one _flush_buffer on the collector and its repository.
do_flush(buf, outcome) ==
    LET r == flush_buffer(buf, batch_size, outcome)
    IN  /\ outcome \in save_outcomes(repository_kind)
        /\ (r.errors = 1) => (flush_errors < MaxFlushErrors)
        /\ buffer' = r.buffer
        /\ batches_flushed' = batches_flushed + r.flushed
        /\ flush_errors' = flush_errors + r.errors
        /\ repository_metrics' = repository_metrics \o r.stored
        /\ save_calls' = IF r.called
                         THEN Append(save_calls, [slice |-> r.slice, outcome |-> outcome])
                         ELSE save_calls
        /\ flush_return' = r.ret
        /\ collector_raised' = r.raised

\* The metrics a caller hands over next: fresh ordinals.
new_metrics(n) == [i \in 1..n |-> Len(collected) + i]

\* MetricsCollector.collect
collect(outcome) ==
    /\ UNCHANGED <<producerVars, busVars, aggregatorVars, streamVars, analyzerVars, detectorVars>>
    /\ lock = "free"
    /\ Len(collected) < MaxMetrics
    /\ LET metric == Len(collected) + 1
           appended == Append(buffer, metric)
       IN  /\ collected' = Append(collected, metric)
           /\ metrics_collected' = metrics_collected + 1
           /\ IF should_flush(appended, batch_size)
              THEN do_flush(appended, outcome)
              ELSE /\ buffer' = appended
                   /\ collector_raised' = FALSE
                   /\ UNCHANGED <<batches_flushed, flush_errors, repository_metrics,
                                  save_calls, flush_return>>
    /\ UNCHANGED <<batch_size, pending_saves, lock, repository_kind, run_task, only_collect>>

\* MetricsCollector.collect_batch up to its first flush: the lock stays held
\* while the loop condition len(buffer) >= batch_size holds.
collect_batch(n) ==
    /\ UNCHANGED <<producerVars, busVars, aggregatorVars, streamVars, analyzerVars, detectorVars>>
    /\ lock = "free"
    /\ Len(collected) + n <= MaxMetrics
    /\ buffer' = buffer \o new_metrics(n)
    /\ collected' = collected \o new_metrics(n)
    /\ metrics_collected' = metrics_collected + n
    /\ lock' = IF should_flush(buffer', batch_size) THEN "collect_batch" ELSE "free"
    /\ only_collect' = FALSE
    /\ collector_raised' = FALSE
    /\ UNCHANGED <<batch_size, pending_saves, batches_flushed, flush_errors, repository_kind,
                   repository_metrics, save_calls, flush_return, run_task>>

\* One iteration of the while loop of collect_batch; the call returns (and
\* releases the lock) once the buffer is shorter than batch_size.
collect_batch_flush(outcome) ==
    /\ UNCHANGED <<producerVars, busVars, aggregatorVars, streamVars, analyzerVars, detectorVars>>
    /\ lock = "collect_batch"
    /\ should_flush(buffer, batch_size)
    /\ do_flush(buffer, outcome)
    /\ lock' = IF should_flush(buffer', batch_size) THEN "collect_batch" ELSE "free"
    /\ UNCHANGED <<batch_size, pending_saves, metrics_collected, repository_kind, collected,
                   run_task, only_collect>>

\* MetricsCollector.flush
flush(outcome) ==
    /\ UNCHANGED <<producerVars, busVars, aggregatorVars, streamVars, analyzerVars, detectorVars>>
    /\ lock = "free"
    /\ do_flush(buffer, outcome)
    /\ only_collect' = FALSE
    /\ UNCHANGED <<batch_size, pending_saves, metrics_collected, lock, repository_kind, collected,
                   run_task>>

\* A task starts MetricsCollector.run.
run_start ==
    /\ UNCHANGED <<producerVars, busVars, aggregatorVars, streamVars, analyzerVars, detectorVars>>
    /\ run_task = "not_started"
    /\ run_task' = "running"
    /\ only_collect' = FALSE
    /\ UNCHANGED <<batch_size, pending_saves, buffer, metrics_collected, batches_flushed,
                   flush_errors, lock, repository_kind, repository_metrics,
                   save_calls, flush_return, collector_raised, collected>>

\* One iteration of MetricsCollector.run: after the sleep, flush if the
\* buffer is not empty.
run_tick(outcome) ==
    /\ UNCHANGED <<producerVars, busVars, aggregatorVars, streamVars, analyzerVars, detectorVars>>
    /\ run_task = "running"
    /\ lock = "free"
    /\ IF buffer # <<>>
       THEN do_flush(buffer, outcome)
       ELSE UNCHANGED <<buffer, batches_flushed, flush_errors, repository_metrics,
                        save_calls, flush_return, collector_raised>>
    /\ only_collect' = FALSE
    /\ UNCHANGED <<batch_size, pending_saves, metrics_collected, lock, repository_kind, collected,
                   run_task>>

\* The task running MetricsCollector.run is cancelled while it sleeps or
\* waits for the lock: the CancelledError handler calls flush() once and
\* re-raises, which ends the task.
run_cancel(outcome) ==
    /\ UNCHANGED <<producerVars, busVars, aggregatorVars, streamVars, analyzerVars, detectorVars>>
    /\ run_task = "running"
    /\ lock = "free"
    /\ do_flush(buffer, outcome)
    /\ run_task' = "exited"
    /\ only_collect' = FALSE
    /\ UNCHANGED <<batch_size, pending_saves, metrics_collected, lock, repository_kind, collected>>

CollectorVarsInit ==
    /\ batch_size \in 1..MaxBatchSize
    /\ buffer = <<>>
    /\ metrics_collected = 0
    /\ batches_flushed = 0
    /\ flush_errors = 0
    /\ lock = "free"
    /\ repository_kind \in {"in_memory", "fallible"}
    /\ repository_metrics = <<>>
    /\ save_calls = <<>>
    /\ flush_return = 0
    /\ collector_raised = FALSE
    /\ collected = <<>>
    /\ run_task = "not_started"
    /\ only_collect = TRUE
    /\ pending_saves = <<>>

\* What is kept of the call history when the same failing call repeats
\* without end.
recent_calls(calls) ==
    SubSeq(calls, Len(calls) - Min(Len(calls), MaxFlushErrors) + 1, Len(calls))

\* One iteration of the while loop of collect_batch, with the error counter
\* wrapping around and the call history cut to its latest entries, so that a
\* repository that keeps failing gives finitely many states and every
\* iteration still is a step.
collect_batch_flush_persistent(outcome) ==
    /\ UNCHANGED <<producerVars, busVars, aggregatorVars, streamVars, analyzerVars, detectorVars>>
    /\ lock = "collect_batch"
    /\ should_flush(buffer, batch_size)
    /\ outcome \in save_outcomes(repository_kind)
    /\ LET r == flush_buffer(buffer, batch_size, outcome)
       IN  /\ buffer' = r.buffer
           /\ batches_flushed' = batches_flushed + r.flushed
           /\ flush_errors' = (flush_errors + r.errors) % (MaxFlushErrors + 1)
           /\ repository_metrics' = repository_metrics \o r.stored
           /\ save_calls' = recent_calls(Append(save_calls,
                                   [slice |-> r.slice, outcome |-> outcome]))
           /\ flush_return' = r.ret
           /\ collector_raised' = r.raised
    /\ lock' = IF should_flush(buffer', batch_size) THEN "collect_batch" ELSE "free"
    /\ UNCHANGED <<batch_size, pending_saves, metrics_collected, repository_kind, collected,
                   run_task, only_collect>>

collect_batch_loop ==
    \E outcome \in {"saved", "zero", "raise"} : collect_batch_flush_persistent(outcome)

\* collect_batch callers and the loop of the call that holds the lock
PersistentNext ==
    \/ \E n \in 0..MaxBatchLen : collect_batch(n)
    \/ collect_batch_loop

(***************************************************************************)
(* The collector with its suspension points.  A caller runs from            *)
(* "async with self._lock" to the await of save_metrics_batch in one step:  *)
(* acquiring a free asyncio.Lock does not yield.  The save then is pending  *)
(* until the repository answers, and the caller resumes behind the await.   *)
(***************************************************************************)
\* Variant: the lock is never waited for.
lock_is_free_unguarded(l) == TRUE

\* async with self._lock: the caller goes on when nobody holds the lock.
lock_is_free(l) == l = "free"

\* _flush_buffer up to its await: nothing for an empty buffer, else the
\* slice is handed to save_metrics_batch and the caller is suspended.
start_flush(holder, buf) ==
    /\ buffer' = buf
    /\ IF buf = <<>>
       THEN /\ flush_return' = 0
            /\ UNCHANGED <<lock, pending_saves>>
       ELSE /\ pending_saves' = Append(pending_saves,
                                     [holder |-> holder,
                                      slice |-> slice_to(buf, batch_size)])
            /\ lock' = holder
            /\ UNCHANGED flush_return

enter_collect ==
    /\ UNCHANGED <<producerVars, busVars, aggregatorVars, streamVars, analyzerVars, detectorVars>>
    /\ lock_is_free(lock)
    /\ Len(collected) < MaxMetrics
    /\ LET metric == Len(collected) + 1
           appended == Append(buffer, metric)
       IN  /\ collected' = Append(collected, metric)
           /\ metrics_collected' = metrics_collected + 1
           /\ IF should_flush(appended, batch_size)
              THEN start_flush("collect", appended)
              ELSE /\ buffer' = appended
                   /\ UNCHANGED <<lock, pending_saves, flush_return>>
    /\ UNCHANGED <<batch_size, batches_flushed, flush_errors, repository_kind,
                   repository_metrics, save_calls, collector_raised, run_task,
                   only_collect>>

enter_collect_batch(n) ==
    /\ UNCHANGED <<producerVars, busVars, aggregatorVars, streamVars, analyzerVars, detectorVars>>
    /\ lock_is_free(lock)
    /\ Len(collected) + n <= MaxMetrics
    /\ collected' = collected \o new_metrics(n)
    /\ metrics_collected' = metrics_collected + n
    /\ IF should_flush(buffer \o new_metrics(n), batch_size)
       THEN start_flush("collect_batch", buffer \o new_metrics(n))
       ELSE /\ buffer' = buffer \o new_metrics(n)
            /\ UNCHANGED <<lock, pending_saves, flush_return>>
    /\ only_collect' = FALSE
    /\ UNCHANGED <<batch_size, batches_flushed, flush_errors, repository_kind,
                   repository_metrics, save_calls, collector_raised, run_task>>

enter_flush ==
    /\ UNCHANGED <<producerVars, busVars, aggregatorVars, streamVars, analyzerVars, detectorVars>>
    /\ lock_is_free(lock)
    /\ start_flush("flush", buffer)
    /\ only_collect' = FALSE
    /\ UNCHANGED <<batch_size, metrics_collected, batches_flushed, flush_errors,
                   repository_kind, repository_metrics, save_calls,
                   collector_raised, collected, run_task>>

\* run() after its sleep: it takes the lock and flushes a non-empty buffer.
enter_run_tick ==
    /\ UNCHANGED <<producerVars, busVars, aggregatorVars, streamVars, analyzerVars, detectorVars>>
    /\ run_task = "running"
    /\ lock_is_free(lock)
    /\ buffer # <<>>
    /\ start_flush("run", buffer)
    /\ only_collect' = FALSE
    /\ UNCHANGED <<batch_size, metrics_collected, batches_flushed, flush_errors,
                   repository_kind, repository_metrics, save_calls,
                   collector_raised, collected, run_task>>

\* The repository has stored the slice of pending save i: its caller resumes,
\* cuts batch_size metrics off the buffer as it is now and counts the batch;
\* collect_batch goes round its loop into the next save, any other caller
\* leaves the lock.
save_returns(i) ==
    /\ UNCHANGED <<producerVars, busVars, aggregatorVars, streamVars, analyzerVars, detectorVars>>
    /\ i \in 1..Len(pending_saves)
    /\ LET p == pending_saves[i]
           rest == slice_from(buffer, batch_size)
           others == [k \in 1..(Len(pending_saves) - 1) |->
                        IF k < i THEN pending_saves[k] ELSE pending_saves[k + 1]]
       IN  /\ buffer' = rest
           /\ repository_metrics' = repository_metrics \o p.slice
           /\ batches_flushed' = batches_flushed + 1
           /\ save_calls' = Append(save_calls, [slice |-> p.slice, outcome |-> "saved"])
           /\ flush_return' = Len(p.slice)
           /\ IF p.holder = "collect_batch" /\ should_flush(rest, batch_size)
              THEN /\ pending_saves' = Append(others,
                                              [holder |-> p.holder,
                                               slice |-> slice_to(rest, batch_size)])
                   /\ UNCHANGED lock
              ELSE /\ pending_saves' = others
                   /\ lock' = "free"
    /\ UNCHANGED <<batch_size, metrics_collected, flush_errors, repository_kind,
                   collector_raised, collected, run_task, only_collect>>

InterleavedNext ==
    \/ enter_collect
    \/ \E n \in 0..MaxBatchLen : enter_collect_batch(n)
    \/ enter_flush
    \/ run_start
    \/ enter_run_tick
    \/ \E i \in 1..MaxMetrics : save_returns(i)

CollectorNext ==
    \/ \E outcome \in {"saved", "zero", "raise"} : collect(outcome)
    \/ \E n \in 0..MaxBatchLen : collect_batch(n)
    \/ \E outcome \in {"saved", "zero", "raise"} : collect_batch_flush(outcome)
    \/ \E outcome \in {"saved", "zero", "raise"} : flush(outcome)
    \/ run_start
    \/ \E outcome \in {"saved", "zero", "raise"} : run_tick(outcome)
    \/ \E outcome \in {"saved", "zero", "raise"} : run_cancel(outcome)

(***************************************************************************)
(* MetricsAggregator.  Values are integers; avg_value and stddev_value are *)
(* kept as exact fractions (avg = sum / count, stddev = the square root of *)
(* variance_num / variance_den), the other statistics are elements of the  *)
(* value list.                                                             *)
(***************************************************************************)
\* The value lists get_metrics can return, in storage order, and the list of
\* test_percentile_calculation scaled by ten.
TestValues == <<10, 20, 30, 40, 50, 60, 70, 80, 90, 100>>

ValueLists ==
    UNION {[1..n -> 0..MaxValue] : n \in 0..MaxValues} \cup {TestValues}

RECURSIVE insert_sorted(_, _)
insert_sorted(sorted, v) ==
    IF sorted = <<>> THEN <<v>>
    ELSE IF v <= Head(sorted) THEN <<v>> \o sorted
    ELSE <<Head(sorted)>> \o insert_sorted(Tail(sorted), v)

\* values.sort()
RECURSIVE sort(_)
sort(values) ==
    IF values = <<>> THEN <<>>
    ELSE insert_sorted(sort(Tail(values)), Head(values))

RECURSIVE sum(_)
sum(values) == IF values = <<>> THEN 0 ELSE Head(values) + sum(Tail(values))

list_min(values) ==
    CHOOSE v \in {values[i] : i \in 1..Len(values)} :
        \A i \in 1..Len(values) : v <= values[i]

list_max(values) ==
    CHOOSE v \in {values[i] : i \in 1..Len(values)} :
        \A i \in 1..Len(values) : v >= values[i]

\* Variant: nearest-rank index, ceil(percentile * n / 100) - 1.
compute_percentile_nearest_rank(sorted_values, percentile) ==
    LET index == ((percentile * Len(sorted_values) + 99) \div 100) - 1
    IN  sorted_values[Min(index, Len(sorted_values) - 1) + 1]

\* MetricsAggregator._compute_percentile.  int((percentile / 100.0) * n) is
\* computed in binary floating point; for the percentiles aggregate_period
\* asks for (50, 95, 99) the product rounds to the exact integer whenever
\* percentile * n is a multiple of 100 and is at least 1/100 away from an
\* integer otherwise, so the truncation equals the integer quotient.  Python
\* indexes from 0, hence the + 1.
compute_percentile(sorted_values, percentile) ==
    LET index == (percentile * Len(sorted_values)) \div 100
    IN  sorted_values[Min(index, Len(sorted_values) - 1) + 1]

\* MetricsAggregator._compute_stddev, as the fraction under the square root:
\* sum((x - mean)^2) / n = (n * sum(x^2) - sum(x)^2) / n^2.
compute_stddev(values) ==
    IF Len(values) < 2
    THEN [variance_num |-> 0, variance_den |-> 1]
    ELSE [variance_num |-> Len(values) * sum([i \in 1..Len(values) |-> values[i] * values[i]])
                             - sum(values) * sum(values),
          variance_den |-> Len(values) * Len(values)]

\* The statistics aggregate_period computes from a value list.
statistics(metrics) ==
    LET values == sort(metrics)
        count == Len(values)
    IN  [count |-> count,
         min_value |-> list_min(values),
         max_value |-> list_max(values),
         avg_value |-> [sum |-> sum(values), count |-> count],
         median_value |-> compute_percentile(values, 50),
         stddev_value |-> compute_stddev(values),
         p95_value |-> compute_percentile(values, 95),
         p99_value |-> compute_percentile(values, 99)]

\* Variant: no early return for an empty result; the empty list is
\* aggregated to a count of 0 with zero statistics.
aggregate_period_call_no_empty_check(metrics, outcome) ==
    IF outcome = "raise"
    THEN [result |-> <<>>, created |-> 0, errors |-> 1]
    ELSE IF metrics = <<>>
    THEN [result |-> <<[count |-> 0, min_value |-> 0, max_value |-> 0,
                        avg_value |-> [sum |-> 0, count |-> 1], median_value |-> 0,
                        stddev_value |-> [variance_num |-> 0, variance_den |-> 1],
                        p95_value |-> 0, p99_value |-> 0]>>,
          created |-> 1, errors |-> 0]
    ELSE [result |-> <<statistics(metrics)>>, created |-> 1, errors |-> 0]

\* MetricsAggregator.aggregate_period, get_metrics answering with the list
\* metrics (outcome "rows") or raising (outcome "raise").
aggregate_period_call(metrics, outcome) ==
    IF outcome = "raise"
    THEN [result |-> <<>>, created |-> 0, errors |-> 1]
    ELSE IF metrics = <<>>
    THEN [result |-> <<>>, created |-> 0, errors |-> 0]
    ELSE [result |-> <<statistics(metrics)>>, created |-> 1, errors |-> 0]

aggregate_period(metrics, outcome) ==
    /\ UNCHANGED <<producerVars, busVars, collectorVars, streamVars, analyzerVars, detectorVars>>
    /\ aggregations_created + aggregation_errors < MaxAggregations
    /\ LET r == aggregate_period_call(metrics, outcome)
       IN  /\ aggregate_result' = r.result
           /\ aggregations_created' = aggregations_created + r.created
           /\ aggregation_errors' = aggregation_errors + r.errors
    /\ period_metrics' = IF outcome = "raise" THEN <<>> ELSE metrics
    /\ UNCHANGED <<stored_metrics, period_results>>

\* Whole-second instants of metric timestamps and period boundaries.
Timestamps == 0..MaxTimestamp

\* What the in-memory repository can hold: metrics of one name.
StoredMetrics ==
    UNION {[1..n -> [timestamp : Timestamps, value : {1}]] : n \in 0..MaxValues}

\* InMemoryMetricsRepository.get_metrics without tags: the positions, in
\* storage order, of the metrics it returns.
get_metrics(metrics, start_time, end_time) ==
    SelectSeq([i \in 1..Len(metrics) |-> i],
              LAMBDA i : /\ start_time <= metrics[i].timestamp
                         /\ metrics[i].timestamp <= end_time)

\* aggregate_period(name, level, period_start, period_end) against the
\* in-memory repository.
aggregate_stored_period(period_start, period_end) ==
    /\ UNCHANGED <<producerVars, busVars, collectorVars, streamVars, analyzerVars, detectorVars>>
    /\ \A r \in period_results : <<r.period_start, r.period_end>> # <<period_start, period_end>>
    /\ LET found == get_metrics(stored_metrics, period_start, period_end)
           values == [k \in 1..Len(found) |-> stored_metrics[found[k]].value]
           r == aggregate_period_call(values, "rows")
       IN  /\ aggregate_result' = r.result
           /\ aggregations_created' = aggregations_created + r.created
           /\ aggregation_errors' = aggregation_errors + r.errors
           /\ period_metrics' = values
           /\ period_results' =
                 period_results \cup
                 {[period_start |-> period_start, period_end |-> period_end,
                   members |-> {found[k] : k \in 1..Len(found)},
                   count |-> IF r.result = <<>> THEN 0 ELSE r.result[1].count]}
    /\ UNCHANGED stored_metrics

PeriodNext ==
    \E period_start, period_end \in Timestamps :
        period_start < period_end /\ aggregate_stored_period(period_start, period_end)

AggregatorVarsInit ==
    /\ aggregations_created = 0
    /\ aggregation_errors = 0
    /\ period_metrics = <<>>
    /\ aggregate_result = <<>>
    /\ stored_metrics \in StoredMetrics
    /\ period_results = {}

AggregatorNext ==
    \E metrics \in ValueLists, outcome \in {"rows", "raise"} :
        aggregate_period(metrics, outcome)

(***************************************************************************)
(* StreamProcessor.  A StreamElement is named by the ordinal of its        *)
(* add_element call and carries the timestamp it was stamped with.         *)
(***************************************************************************)
\* The instants at which the clock is read, in seconds after a full minute.
Times == {0, 2, 5, 10, 12, 30, 65}

\* The window configurations the processor is built with.
WindowConfigs ==
    {[window_type |-> "tumbling", window_size_seconds |-> size,
      slide_interval_seconds |-> 10, inactivity_timeout_seconds |-> 300] :
        size \in {10, 60}}
    \cup {[window_type |-> "sliding", window_size_seconds |-> 10,
           slide_interval_seconds |-> 5, inactivity_timeout_seconds |-> 300]}
    \cup {[window_type |-> "session", window_size_seconds |-> 60,
           slide_interval_seconds |-> 10, inactivity_timeout_seconds |-> 10]}

\* dict operations on the insertion-ordered list of (window_id, elements)
window_ids(ws) == {ws[i].window_id : i \in 1..Len(ws)}

window_index(ws, id) == CHOOSE i \in 1..Len(ws) : ws[i].window_id = id

window_elements(ws, id) == ws[window_index(ws, id)].elements

\* self._windows[id] = elements: a new key goes last, an old one keeps its place
window_set(ws, id, elements) ==
    IF id \in window_ids(ws)
    THEN [ws EXCEPT ![window_index(ws, id)].elements = elements]
    ELSE Append(ws, [window_id |-> id, elements |-> elements])

\* self._windows.pop(id), the dict that is left
window_pop(ws, id) ==
    LET NotId(w) == w.window_id # id IN SelectSeq(ws, NotId)

last_timestamp(elements) == elements[Len(elements)].timestamp

\* timestamp.replace(second=0, microsecond=0) and timestamp.second
minute_start(timestamp) == timestamp - (timestamp % 60)

second_of(timestamp) == timestamp % 60

\* window_start of _route_tumbling
tumbling_window_start(timestamp, size) ==
    minute_start(timestamp) - (second_of(timestamp) % size)

\* StreamProcessor._route_tumbling: the dict afterwards, the windows created
\* and the handler invocations.
route_tumbling(ws, element, size) ==
    LET window_start == tumbling_window_start(element.timestamp, size)
        window_id == window_start
        is_new == window_id \notin window_ids(ws)
        opened == IF is_new THEN window_set(ws, window_id, <<>>) ELSE ws
        appended == window_set(opened, window_id,
                               Append(window_elements(opened, window_id), element))
        window_end == window_start + size
    IN  IF element.timestamp >= window_end
        THEN [windows |-> window_pop(appended, window_id),
              created |-> IF is_new THEN 1 ELSE 0,
              handed |-> <<[window_id |-> window_id,
                            elements |-> window_elements(appended, window_id)]>>]
        ELSE [windows |-> appended,
              created |-> IF is_new THEN 1 ELSE 0,
              handed |-> <<>>]

\* the loop of _route_sliding from index i on
RECURSIVE route_sliding_from(_, _, _, _, _, _)
route_sliding_from(i, windows_to_check, r, element, size, slide) ==
    IF i >= windows_to_check THEN r
    ELSE LET w_start == (element.timestamp - size) + i * slide
             w_end == w_start + size
             is_new == w_start \notin window_ids(r.windows)
             opened == IF is_new THEN window_set(r.windows, w_start, <<>>)
                       ELSE r.windows
         IN  IF w_start <= element.timestamp /\ element.timestamp < w_end
             THEN route_sliding_from(i + 1, windows_to_check,
                      [windows |-> window_set(opened, w_start,
                                      Append(window_elements(opened, w_start), element)),
                       created |-> r.created + (IF is_new THEN 1 ELSE 0),
                       handed |-> <<>>],
                      element, size, slide)
             ELSE route_sliding_from(i + 1, windows_to_check, r, element, size, slide)

\* StreamProcessor._route_sliding; int(size / slide) is the integer quotient
\* for the positive sizes of the model.
route_sliding(ws, element, size, slide) ==
    route_sliding_from(0, (size \div slide) + 1,
                       [windows |-> ws, created |-> 0, handed |-> <<>>],
                       element, size, slide)

\* the windows an element can join, in dict order
joinable_sessions(ws, element, timeout) ==
    LET Joinable(w) ==
            /\ w.elements # <<>>
            /\ element.timestamp - last_timestamp(w.elements) < timeout
    IN  SelectSeq(ws, Joinable)

\* Variant: a gap of exactly the timeout still joins.
route_session_inclusive(ws, element, timeout) ==
    LET Joinable(w) ==
            /\ w.elements # <<>>
            /\ element.timestamp - last_timestamp(w.elements) <= timeout
        candidates == SelectSeq(ws, Joinable)
        active_session == IF candidates # <<>> THEN candidates[1].window_id
                          ELSE element.timestamp
        opened == IF candidates # <<>> THEN ws
                  ELSE window_set(ws, active_session, <<>>)
    IN  [windows |-> window_set(opened, active_session,
                        Append(window_elements(opened, active_session), element)),
         created |-> IF candidates # <<>> THEN 0 ELSE 1,
         handed |-> <<>>]

\* StreamProcessor._route_session: the first joinable window in dict order,
\* else a new window named by the element's timestamp.
route_session(ws, element, timeout) ==
    LET candidates == joinable_sessions(ws, element, timeout)
        active_session == IF candidates # <<>> THEN candidates[1].window_id
                          ELSE element.timestamp
        opened == IF candidates # <<>> THEN ws
                  ELSE window_set(ws, active_session, <<>>)
    IN  [windows |-> window_set(opened, active_session,
                        Append(window_elements(opened, active_session), element)),
         created |-> IF candidates # <<>> THEN 0 ELSE 1,
         handed |-> <<>>]

\* the dispatch of _route_to_window
route(ws, element, cfg) ==
    IF cfg.window_type = "tumbling"
    THEN route_tumbling(ws, element, cfg.window_size_seconds)
    ELSE IF cfg.window_type = "sliding"
    THEN route_sliding(ws, element, cfg.window_size_seconds,
                       cfg.slide_interval_seconds)
    ELSE route_session(ws, element, cfg.inactivity_timeout_seconds)

\* Variant: a window counts as expired as soon as its last element is the
\* timeout old.
expired_windows_inclusive(ws, cfg, now) ==
    LET Expired(w) ==
            /\ w.elements # <<>>
            /\ cfg.window_type = "session"
            /\ now - last_timestamp(w.elements) >= cfg.inactivity_timeout_seconds
    IN  SelectSeq(ws, Expired)

\* the windows _check_expired_windows finds expired at instant now, in dict
\* order
expired_windows(ws, cfg, now) ==
    LET Expired(w) ==
            /\ w.elements # <<>>
            /\ cfg.window_type = "session"
            /\ now - last_timestamp(w.elements) > cfg.inactivity_timeout_seconds
    IN  SelectSeq(ws, Expired)

\* datetime.utcnow() moves on to a later instant.
tick(now) ==
    /\ UNCHANGED <<producerVars, busVars, collectorVars, aggregatorVars, analyzerVars, detectorVars>>
    /\ now > clock
    /\ clock' = now
    /\ UNCHANGED <<config, max_buffer_size, stop_called, stream_buffer, windows, running, elements_processed,
                   windows_created, stream_errors, stream_task, elements_added,
                   emitted>>

\* Variant: the intake is a last-in first-out queue.
add_element_lifo ==
    /\ UNCHANGED <<producerVars, busVars, collectorVars, aggregatorVars, analyzerVars, detectorVars>>
    /\ elements_added < MaxElements
    /\ stream_buffer' = <<[n |-> elements_added + 1, timestamp |-> clock]>>
                         \o stream_buffer
    /\ elements_added' = elements_added + 1
    /\ UNCHANGED <<config, max_buffer_size, stop_called, windows, running, elements_processed, windows_created,
                   stream_errors, stream_task, clock, emitted>>

\* StreamProcessor.add_element: the queue is built without a maxsize, so
\* put_nowait always succeeds.
add_element ==
    /\ UNCHANGED <<producerVars, busVars, collectorVars, aggregatorVars, analyzerVars, detectorVars>>
    /\ elements_added < MaxElements
    /\ stream_buffer' = Append(stream_buffer,
                               [n |-> elements_added + 1, timestamp |-> clock])
    /\ elements_added' = elements_added + 1
    /\ UNCHANGED <<config, max_buffer_size, stop_called, windows, running, elements_processed, windows_created,
                   stream_errors, stream_task, clock, emitted>>

\* A task enters process_stream and waits for the first element.
process_stream_start ==
    /\ UNCHANGED <<producerVars, busVars, collectorVars, aggregatorVars, analyzerVars, detectorVars>>
    /\ stream_task = "not_started"
    /\ stream_task' = "waiting"
    /\ running' = TRUE
    /\ UNCHANGED <<config, max_buffer_size, stop_called, stream_buffer, windows, elements_processed,
                   windows_created, stream_errors, clock, elements_added, emitted>>

\* One iteration of process_stream whose get returns an element: the element
\* is routed (_route_to_window catches what the handler raises), counted,
\* and the loop condition is read again.
route_element(handler_raises) ==
    /\ UNCHANGED <<producerVars, busVars, collectorVars, aggregatorVars, analyzerVars, detectorVars>>
    /\ stream_task = "waiting"
    /\ stream_buffer # <<>>
    /\ LET r == route(windows, Head(stream_buffer), config)
       IN  /\ handler_raises => (r.handed # <<>> /\ stream_errors < MaxStreamErrors)
           /\ windows' = r.windows
           /\ windows_created' = windows_created + r.created
           /\ emitted' = emitted \o r.handed
    /\ stream_buffer' = Tail(stream_buffer)
    /\ stream_errors' = stream_errors + (IF handler_raises THEN 1 ELSE 0)
    /\ elements_processed' = elements_processed + 1
    /\ stream_task' = IF running THEN "waiting" ELSE "returned"
    /\ UNCHANGED <<config, max_buffer_size, stop_called, running, clock, elements_added>>

\* One iteration of process_stream whose get times out on an empty queue:
\* _check_expired_windows pops the expired windows in dict order and hands
\* each to the handler; what the handler raises ends process_stream.
check_expired_windows(handler_raises) ==
    /\ UNCHANGED <<producerVars, busVars, collectorVars, aggregatorVars, analyzerVars, detectorVars>>
    /\ stream_task = "waiting"
    /\ stream_buffer = <<>>
    /\ LET expired == expired_windows(windows, config, clock)
           handed == IF handler_raises THEN SubSeq(expired, 1, 1) ELSE expired
           Kept(w) == \A i \in 1..Len(handed) : handed[i].window_id # w.window_id
       IN  /\ handler_raises => (expired # <<>> /\ stream_errors < MaxStreamErrors)
           /\ windows' = SelectSeq(windows, Kept)
           /\ emitted' = emitted \o handed
    /\ stream_errors' = stream_errors + (IF handler_raises THEN 1 ELSE 0)
    /\ stream_task' = IF handler_raises THEN "raised"
                      ELSE IF running THEN "waiting" ELSE "returned"
    /\ running' = IF handler_raises THEN FALSE ELSE running
    /\ UNCHANGED <<config, max_buffer_size, stop_called, stream_buffer, elements_processed, windows_created,
                   clock, elements_added>>

\* StreamProcessor.stop
stop ==
    /\ UNCHANGED <<producerVars, busVars, collectorVars, aggregatorVars, analyzerVars, detectorVars>>
    /\ running' = FALSE
    /\ stop_called' = TRUE
    /\ UNCHANGED <<config, max_buffer_size, stream_buffer, windows, elements_processed,
                   windows_created, stream_errors, stream_task, clock,
                   elements_added, emitted>>

StreamVarsInit ==
    /\ config \in WindowConfigs
    /\ max_buffer_size \in 1..MaxBufferSize
    /\ stream_buffer = <<>>
    /\ windows = <<>>
    /\ running = FALSE
    /\ elements_processed = 0
    /\ windows_created = 0
    /\ stream_errors = 0
    /\ stream_task = "not_started"
    /\ clock = 0
    /\ elements_added = 0
    /\ emitted = <<>>
    /\ stop_called = FALSE

StreamNext ==
    \/ \E now \in Times : tick(now)
    \/ add_element
    \/ process_stream_start
    \/ \E handler_raises \in BOOLEAN : route_element(handler_raises)
    \/ \E handler_raises \in BOOLEAN : check_expired_windows(handler_raises)
    \/ stop

(***************************************************************************)
(* StreamProcessor under sustained arrivals: add_element is called for     *)
(* ever, the intake queue holding at most MaxBuffered elements at a time.  *)
(* To stay finite the model then keeps of every window only its newest     *)
(* MaxElements elements and lets the counters and the element ordinals     *)
(* stop at MaxElements; the session router and the sweep read nothing of   *)
(* a window but the timestamp of its last element.  The last instant of    *)
(* Times stands for the rest of time.                                      *)
(***************************************************************************)
saturated(n) == Min(n, MaxElements)

newest(elements) ==
    SubSeq(elements, Len(elements) - saturated(Len(elements)) + 1, Len(elements))

add_element_sustained ==
    /\ UNCHANGED <<producerVars, busVars, collectorVars, aggregatorVars, analyzerVars, detectorVars>>
    /\ Len(stream_buffer) < MaxBuffered
    /\ stream_buffer' = Append(stream_buffer,
                               [n |-> saturated(elements_added + 1),
                                timestamp |-> clock])
    /\ elements_added' = saturated(elements_added + 1)
    /\ UNCHANGED <<config, max_buffer_size, stop_called, windows, running, elements_processed, windows_created,
                   stream_errors, stream_task, clock, emitted>>

route_element_sustained(handler_raises) ==
    /\ UNCHANGED <<producerVars, busVars, collectorVars, aggregatorVars, analyzerVars, detectorVars>>
    /\ stream_task = "waiting"
    /\ stream_buffer # <<>>
    /\ LET r == route(windows, Head(stream_buffer), config)
       IN  /\ handler_raises => (r.handed # <<>> /\ stream_errors < MaxStreamErrors)
           /\ windows' = [i \in 1..Len(r.windows) |->
                            [r.windows[i] EXCEPT !.elements = newest(@)]]
           /\ windows_created' = saturated(windows_created + r.created)
           /\ emitted' = emitted \o r.handed
    /\ stream_buffer' = Tail(stream_buffer)
    /\ stream_errors' = stream_errors + (IF handler_raises THEN 1 ELSE 0)
    /\ elements_processed' = saturated(elements_processed + 1)
    /\ stream_task' = IF running THEN "waiting" ELSE "returned"
    /\ UNCHANGED <<config, max_buffer_size, stop_called, running, clock, elements_added>>

SustainedNext ==
    \/ \E now \in Times : tick(now)
    \/ add_element_sustained
    \/ process_stream_start
    \/ \E handler_raises \in BOOLEAN : route_element_sustained(handler_raises)
    \/ \E handler_raises \in BOOLEAN : check_expired_windows(handler_raises)
    \/ stop

\* One iteration of the loop of process_stream: the get returns within its
\* timeout, with an element or without.
process_stream_iteration ==
    \/ \E handler_raises \in BOOLEAN : route_element_sustained(handler_raises)
    \/ \E handler_raises \in BOOLEAN : check_expired_windows(handler_raises)

(***************************************************************************)
(* StatisticalAnalyzer.  The values are integers and a multiplier is       *)
(* counted in halves, so that 1.5 is exact.                                *)
(***************************************************************************)
\* list(range(1, 101)) + [500] of test_whisker_bounds
WhiskerData == [i \in 1..101 |-> IF i <= 100 THEN i ELSE 500]

SampleLists ==
    UNION {[1..n -> 0..MaxSample] : n \in 0..MaxSamples} \cup {WhiskerData}

Multipliers == {3, 6}

\* sorted(values): position k holds the value with fewer than k values
\* below it and at least k values not above it.
sorted(values) ==
    LET Below(v) == Cardinality({i \in 1..Len(values) : values[i] < v})
        NotAbove(v) == Cardinality({i \in 1..Len(values) : values[i] <= v})
    IN  [k \in 1..Len(values) |->
            CHOOSE v \in {values[i] : i \in 1..Len(values)} :
                Below(v) < k /\ k <= NotAbove(v)]

\* StatisticalAnalyzer.descriptive_stats: the entries that are order
\* statistics of integer values (the moments are floats and are not used by
\* the outlier helpers); {} for no values.
descriptive_stats(values) ==
    IF values = <<>> THEN <<>>
    ELSE LET values_sorted == sorted(values)
             n == Len(values)
             q1_idx == n \div 4
             q3_idx == (3 * n) \div 4
             q1 == values_sorted[q1_idx + 1]
             q3 == values_sorted[q3_idx + 1]
         IN  <<[count |-> n,
                min |-> list_min(values),
                max |-> list_max(values),
                q1 |-> q1,
                q3 |-> q3,
                iqr |-> q3 - q1]>>

\* Variant: the bounds themselves count as outliers.
detect_outliers_iqr_call_inclusive(values, multiplier) ==
    IF Len(values) < 4 THEN [outliers |-> <<>>, performed |-> 0]
    ELSE LET stats == descriptive_stats(values)[1]
             Outlier(i) ==
                 \/ 2 * values[i] <= 2 * stats.q1 - multiplier * stats.iqr
                 \/ 2 * values[i] >= 2 * stats.q3 + multiplier * stats.iqr
             indices == SelectSeq([i \in 1..Len(values) |-> i], Outlier)
         IN  [outliers |-> [k \in 1..Len(indices) |-> indices[k] - 1],
              performed |-> 1]

\* StatisticalAnalyzer.detect_outliers_iqr: the 0-based indices, in input
\* order, of the values below q1 - multiplier*iqr or above
\* q3 + multiplier*iqr; both sides of each comparison are doubled.
detect_outliers_iqr_call(values, multiplier) ==
    IF Len(values) < 4 THEN [outliers |-> <<>>, performed |-> 0]
    ELSE LET stats == descriptive_stats(values)[1]
             Outlier(i) ==
                 \/ 2 * values[i] < 2 * stats.q1 - multiplier * stats.iqr
                 \/ 2 * values[i] > 2 * stats.q3 + multiplier * stats.iqr
             indices == SelectSeq([i \in 1..Len(values) |-> i], Outlier)
         IN  [outliers |-> [k \in 1..Len(indices) |-> indices[k] - 1],
              performed |-> 1]

detect_outliers_iqr(multiplier) ==
    /\ UNCHANGED <<producerVars, busVars, collectorVars, aggregatorVars, streamVars, detectorVars>>
    /\ LET r == detect_outliers_iqr_call(sample_values, multiplier)
       IN  /\ analyses_performed + r.performed <= MaxAnalyses
           /\ outliers' = r.outliers
           /\ analyses_performed' = analyses_performed + r.performed
    /\ sample_multiplier' = multiplier
    /\ UNCHANGED <<sample_values, trend_metrics, trend_result>>

\* Metric.value is any float: a negative value, zero and positive ones
TrendValues == {-1} \cup 0..MaxSample

AnalyzerVarsInit ==
    /\ analyses_performed = 0
    /\ sample_values \in SampleLists
    /\ sample_multiplier = 0
    /\ outliers = <<>>
    /\ trend_metrics \in UNION {[1..n -> TrendValues] : n \in 0..MaxSamples}
    /\ trend_result = [returned |-> "not_called"]

AnalyzerNext == \E multiplier \in Multipliers : detect_outliers_iqr(multiplier)

(***************************************************************************)
(* AnomalyDetector.  Metric values are integers.  A z-score is the         *)
(* irrational |n*x - S| / sqrt(n*Q - S*S) for the sum S and the sum of     *)
(* squares Q of the n values, so every comparison of a z-score is made on  *)
(* its square, and an anomaly_score is kept as the fraction num/den equal  *)
(* to its square.  iqr_multiplier and change_threshold are counted in      *)
(* halves.                                                                 *)
(***************************************************************************)
iqr_multiplier == 3

change_threshold == 1

window_size == 10

\* values of the z-score example of the specification
ZscoreExampleValues == <<10, 12, 11, 13, 9, 100>>

\* ten steady metrics, enough for one change-point window
BaselineValues == [i \in 1..window_size |-> 10]

TailValues == {8, 10, 20}

\* a metric of the tail: its value, and whether it carries the timestamp of
\* the metric before it
TailSamples == [value : TailValues, repeated : BOOLEAN]

metric_series(values, repeated) ==
    [i \in 1..Len(values) |->
        [name |-> "cpu",
         value |-> values[i],
         timestamp |-> IF repeated[i] /\ i > 1 THEN i - 1 ELSE i]]

MetricSeries ==
    {metric_series(ZscoreExampleValues, [i \in 1..6 |-> FALSE])}
    \cup {metric_series(prefix \o [i \in 1..Len(tail) |-> tail[i].value],
                        [i \in 1..Len(prefix) |-> FALSE]
                            \o [i \in 1..Len(tail) |-> tail[i].repeated]) :
            prefix \in {<<>>, BaselineValues},
            tail \in UNION {[1..n -> TailSamples] : n \in 0..MaxTail}}

\* the default (all three), the z-score detector alone, the other two
MethodChoices == {{"zscore", "iqr", "changepoint"}, {"zscore"}, {"iqr", "changepoint"}}

\* min_threshold and max_threshold: both None, or both given
Thresholds == {[min |-> <<>>, max |-> <<>>], [min |-> <<9>>, max |-> <<15>>]}

abs(x) == IF x < 0 THEN -x ELSE x

\* min(score, 1.0) of a score whose square is num/den
capped_score(num, den) ==
    IF num >= den THEN [num |-> 1, den |-> 1] ELSE [num |-> num, den |-> den]

score_at_least(a, b) == a.num * b.den >= b.num * a.den

values_of(metrics) == [i \in 1..Len(metrics) |-> metrics[i].value]

squares_of(values) == [i \in 1..Len(values) |-> values[i] * values[i]]

AnomalyScore(metric, anomaly_score, method, severity) ==
    [value |-> metric.value,
     metric_name |-> metric.name,
     timestamp |-> metric.timestamp,
     anomaly_score |-> anomaly_score,
     method |-> method,
     severity |-> severity]

\* Variant: the high tier starts at z > 2.
detect_zscore_anomalies_call_score_tiers(metrics, threshold) ==
    LET values == values_of(metrics)
        n == Len(values)
        total == sum(values)
        spread == n * sum(squares_of(values)) - total * total
        Deviation(metric) == (n * metric.value - total) * (n * metric.value - total)
        Flagged(metric) == Deviation(metric) > threshold * threshold * spread
        Score(metric) ==
            AnomalyScore(metric, capped_score(Deviation(metric), 25 * spread),
                         "zscore",
                         IF Deviation(metric) > 4 * spread THEN "high"
                         ELSE IF Deviation(metric) > 9 * spread THEN "medium"
                         ELSE "low")
        flagged == SelectSeq(metrics, Flagged)
    IN  IF n < 3 \/ spread = 0 THEN <<>>
        ELSE [i \in 1..Len(flagged) |-> Score(flagged[i])]

\* AnomalyDetector.detect_zscore_anomalies: population mean and stddev;
\* z = |x - mean| / stddev exceeds t exactly when
\* (n*x - S)^2 > t^2 * (n*Q - S^2), and stddev = 0 when n*Q = S^2.
detect_zscore_anomalies_call(metrics, threshold) ==
    LET values == values_of(metrics)
        n == Len(values)
        total == sum(values)
        spread == n * sum(squares_of(values)) - total * total
        Deviation(metric) == (n * metric.value - total) * (n * metric.value - total)
        Flagged(metric) == Deviation(metric) > threshold * threshold * spread
        Score(metric) ==
            AnomalyScore(metric, capped_score(Deviation(metric), 25 * spread),
                         "zscore",
                         IF Deviation(metric) > 16 * spread THEN "high"
                         ELSE IF Deviation(metric) > 9 * spread THEN "medium"
                         ELSE "low")
        flagged == SelectSeq(metrics, Flagged)
    IN  IF n < 3 \/ spread = 0 THEN <<>>
        ELSE [i \in 1..Len(flagged) |-> Score(flagged[i])]

\* AnomalyDetector.detect_iqr_anomalies; the bounds and the distance from
\* them are doubled, the score is distance / max(iqr or 1, 0.1) / 5.
detect_iqr_anomalies_call(metrics) ==
    LET values == sorted(values_of(metrics))
        n == Len(values)
        q1 == values[(n \div 4) + 1]
        q3 == values[((3 * n) \div 4) + 1]
        iqr == q3 - q1
        lower_bound == 2 * q1 - iqr_multiplier * iqr
        upper_bound == 2 * q3 + iqr_multiplier * iqr
        Flagged(metric) ==
            2 * metric.value < lower_bound \/ 2 * metric.value > upper_bound
        distance(metric) ==
            IF 2 * metric.value < lower_bound
            THEN abs(2 * metric.value - lower_bound)
            ELSE abs(2 * metric.value - upper_bound)
        scale == IF iqr = 0 THEN 1 ELSE iqr
        Score(metric) ==
            AnomalyScore(metric,
                         capped_score(distance(metric) * distance(metric),
                                      (10 * scale) * (10 * scale)),
                         "iqr",
                         IF distance(metric) > 7 * scale THEN "high"
                         ELSE IF distance(metric) > 4 * scale THEN "medium"
                         ELSE "low")
        flagged == SelectSeq(metrics, Flagged)
    IN  IF Len(metrics) < 4 THEN <<>>
        ELSE [i \in 1..Len(flagged) |-> Score(flagged[i])]

\* AnomalyDetector.detect_changepoint_anomalies with the default window:
\* the relative change |current - avg| / |avg| for avg = window_sum / 10 is
\* |10*current - window_sum| / |window_sum|.
detect_changepoint_anomalies_call(metrics) ==
    LET window_sum(i) == sum([j \in 1..window_size |-> metrics[i - window_size + j - 1].value])
        change(i) == abs(window_size * metrics[i].value - window_sum(i))
        Flagged(i) ==
            /\ window_sum(i) # 0
            /\ 2 * change(i) > change_threshold * abs(window_sum(i))
        Score(i) ==
            AnomalyScore(metrics[i],
                         capped_score(change(i) * change(i),
                                      window_sum(i) * window_sum(i)),
                         "changepoint",
                         IF change(i) > abs(window_sum(i)) THEN "high"
                         ELSE IF 2 * change(i) > abs(window_sum(i)) THEN "medium"
                         ELSE "low")
        flagged == SelectSeq([k \in 1..(Len(metrics) - window_size) |-> window_size + k],
                             Flagged)
    IN  IF Len(metrics) < window_size + 1 THEN <<>>
        ELSE [k \in 1..Len(flagged) |-> Score(flagged[k])]

\* AnomalyDetector.detect_threshold_anomalies; <<>> is None.
detect_threshold_anomalies_call(metrics, min_threshold, max_threshold) ==
    LET Flagged(metric) ==
            \/ min_threshold # <<>> /\ metric.value < min_threshold[1]
            \/ max_threshold # <<>> /\ metric.value > max_threshold[1]
        flagged == SelectSeq(metrics, Flagged)
    IN  IF min_threshold = <<>> /\ max_threshold = <<>> THEN <<>>
        ELSE [i \in 1..Len(flagged) |->
                AnomalyScore(flagged[i], [num |-> 1, den |-> 1], "threshold", "high")]

\* the loop over all_anomalies of detect_all: an anomaly is kept when no
\* earlier one has its (timestamp, metric_name)
unique_anomalies(all_anomalies) ==
    LET key(a) == <<a.timestamp, a.metric_name>>
        indices == SelectSeq([i \in 1..Len(all_anomalies) |-> i],
                             LAMBDA i : \A j \in 1..(i - 1) :
                                            key(all_anomalies[j]) # key(all_anomalies[i]))
    IN  [k \in 1..Len(indices) |-> all_anomalies[indices[k]]]

\* sorted(list, key=lambda a: a.anomaly_score, reverse=True): a stable sort,
\* equal scores keep the order of the list.
RECURSIVE sorted_by_score(_)
sorted_by_score(list) ==
    IF list = <<>> THEN <<>>
    ELSE LET last == list[Len(list)]
             rest == sorted_by_score(SubSeq(list, 1, Len(list) - 1))
             NotBelow(a) == score_at_least(a.anomaly_score, last.anomaly_score)
             Below(a) == ~NotBelow(a)
         IN  SelectSeq(rest, NotBelow) \o <<last>> \o SelectSeq(rest, Below)

concatenated(metrics, threshold, methods, min_threshold, max_threshold) ==
    (IF "zscore" \in methods THEN detect_zscore_anomalies_call(metrics, threshold)
     ELSE <<>>)
    \o (IF "iqr" \in methods THEN detect_iqr_anomalies_call(metrics) ELSE <<>>)
    \o (IF "changepoint" \in methods THEN detect_changepoint_anomalies_call(metrics)
        ELSE <<>>)
    \o detect_threshold_anomalies_call(metrics, min_threshold, max_threshold)

\* Variant: the last anomaly of a key is kept instead of the first.
detect_all_call_keep_last(metrics, threshold, methods, min_threshold, max_threshold) ==
    LET all_anomalies ==
            concatenated(metrics, threshold, methods, min_threshold, max_threshold)
        reversed == [i \in 1..Len(all_anomalies) |->
                        all_anomalies[Len(all_anomalies) + 1 - i]]
    IN  [anomalies |-> sorted_by_score(unique_anomalies(reversed)),
         found |-> Len(all_anomalies)]

\* AnomalyDetector.detect_all: every detector run counts what it found in
\* _anomalies_detected.
detect_all_call(metrics, threshold, methods, min_threshold, max_threshold) ==
    LET all_anomalies ==
            concatenated(metrics, threshold, methods, min_threshold, max_threshold)
    IN  [anomalies |-> sorted_by_score(unique_anomalies(all_anomalies)),
         found |-> Len(all_anomalies)]

detect_zscore_anomalies ==
    /\ UNCHANGED <<producerVars, busVars, collectorVars, aggregatorVars, streamVars, analyzerVars>>
    /\ LET found == detect_zscore_anomalies_call(detector_metrics, zscore_threshold)
       IN  /\ anomalies_detected < MaxAnomaliesDetected
           /\ anomalies' = found
           /\ anomalies_detected' = anomalies_detected + Len(found)
    /\ detect_call' = [name |-> "detect_zscore_anomalies"]
    /\ UNCHANGED <<zscore_threshold, detector_metrics>>

detect_all(methods, min_threshold, max_threshold) ==
    /\ UNCHANGED <<producerVars, busVars, collectorVars, aggregatorVars, streamVars, analyzerVars>>
    /\ LET r == detect_all_call(detector_metrics, zscore_threshold, methods,
                                min_threshold, max_threshold)
       IN  /\ anomalies_detected < MaxAnomaliesDetected
           /\ anomalies' = r.anomalies
           /\ anomalies_detected' = anomalies_detected + r.found
    /\ detect_call' = [name |-> "detect_all", methods |-> methods,
                       min_threshold |-> min_threshold,
                       max_threshold |-> max_threshold]
    /\ UNCHANGED <<zscore_threshold, detector_metrics>>

DetectorVarsInit ==
    /\ zscore_threshold \in {2, 3}
    /\ anomalies_detected = 0
    /\ detector_metrics \in MetricSeries
    /\ detect_call = [name |-> "none"]
    /\ anomalies = <<>>

DetectorNext ==
    \/ detect_zscore_anomalies
    \/ \E methods \in MethodChoices, thresholds \in Thresholds :
            detect_all(methods, thresholds.min, thresholds.max)

(***************************************************************************)
(* StatisticalAnalyzer.detect_trend.  The values are integers; a slope and *)
(* a trend_strength are kept as fractions num/den with den > 0.            *)
(***************************************************************************)
\* StatisticalAnalyzer.linear_regression, the slope only: numerator and
\* denominator of the code, both times n*n so that the means are whole.
linear_regression(x_values, y_values) ==
    IF Len(x_values) # Len(y_values) \/ Len(x_values) < 2
    THEN [num |-> 0, den |-> 1]
    ELSE LET n == Len(x_values)
             sum_x == sum(x_values)
             sum_y == sum(y_values)
             numerator == sum([i \in 1..n |->
                                 (n * x_values[i] - sum_x) * (n * y_values[i] - sum_y)])
             denominator == sum([i \in 1..n |->
                                   (n * x_values[i] - sum_x) * (n * x_values[i] - sum_x)])
         IN  IF denominator = 0 THEN [num |-> 0, den |-> 1]
             ELSE [num |-> numerator, den |-> denominator]

\* StatisticalAnalyzer.detect_trend on the values of the metrics: None for
\* fewer than 3 metrics and when the division by max(y_values) raises
\* ZeroDivisionError (caught and logged), else the TrendResult.
detect_trend_call(values) ==
    IF Len(values) < 3 THEN [returned |-> "None", performed |-> 0]
    ELSE LET slope == linear_regression([i \in 1..Len(values) |-> i - 1], values)
             trend_type == IF 100 * abs(slope.num) < slope.den THEN "stable"
                           ELSE IF slope.num > 0 THEN "increasing"
                           ELSE "decreasing"
             largest == list_max(values)
         IN  IF largest = 0 THEN [returned |-> "None", performed |-> 0]
             ELSE [returned |-> "TrendResult",
                   trend_type |-> trend_type,
                   slope |-> slope,
                   trend_strength |->
                       IF largest < 0
                       THEN [num |-> -abs(slope.num), den |-> slope.den * (-largest)]
                       ELSE IF abs(slope.num) >= slope.den * largest
                       THEN [num |-> 1, den |-> 1]
                       ELSE [num |-> abs(slope.num), den |-> slope.den * largest],
                   performed |-> 1]

detect_trend ==
    /\ UNCHANGED <<producerVars, busVars, collectorVars, aggregatorVars, streamVars, detectorVars>>
    /\ trend_result.returned = "not_called"
    /\ LET r == detect_trend_call(trend_metrics)
       IN  /\ trend_result' = [f \in DOMAIN r \ {"performed"} |-> r[f]]
           /\ analyses_performed' = analyses_performed + r.performed
    /\ UNCHANGED <<sample_values, sample_multiplier, outliers, trend_metrics>>

TrendNext == detect_trend

(***************************************************************************)
(* Specifications.                                                         *)
(***************************************************************************)
PublishInit ==
    /\ producer_events = <<>>
    /\ stored_metrics = <<>>
    /\ trend_metrics = <<>>
    /\ sample_values = <<>>
    /\ detector_metrics = <<>>
    /\ zscore_threshold = 2
    /\ max_buffer_size = 1
    /\ batch_size = 1
    /\ repository_kind = "in_memory"
    /\ BusVarsInit
    /\ CollectorVarsInit
    /\ AggregatorVarsInit
    /\ StreamVarsInit
    /\ AnalyzerVarsInit
    /\ DetectorVarsInit
    /\ config.window_type = "session"

\* at least two producer tasks
ProducersInit ==
    /\ batch_size = 1
    /\ repository_kind = "in_memory"
    /\ stored_metrics = <<>>
    /\ max_buffer_size = 1
    /\ trend_metrics = <<>>
    /\ sample_values = <<>>
    /\ detector_metrics = <<>>
    /\ zscore_threshold = 2
    /\ BusVarsInit
    /\ Len(producer_events) >= 2
    /\ CollectorVarsInit
    /\ AggregatorVarsInit
    /\ StreamVarsInit
    /\ config.window_type = "session"
    /\ AnalyzerVarsInit
    /\ DetectorVarsInit

ProducersSpec == ProducersInit /\ [][ProducersNext]_vars

StatsSpec == ProducersInit /\ [][StatsNext]_vars

\* producer tasks with valid events, the ids taken in turn so that an id
\* comes twice when there are more tasks than ids
LoopInit ==
    /\ max_queue_size = MaxQueueSize
    /\ ProducersInit
    /\ \A p \in DOMAIN producer_events :
          /\ validate(producer_events[p])
          /\ producer_events[p].event_id = ((p - 1) % MaxEventIds) + 1

LoopSpec == LoopInit /\ [][LoopNext]_vars

DispatchInit ==
    /\ max_queue_size = 1
    /\ PublishInit

CollectorInit ==
    /\ producer_events = <<>>
    /\ max_queue_size = 1
    /\ stored_metrics = <<>>
    /\ trend_metrics = <<>>
    /\ sample_values = <<>>
    /\ detector_metrics = <<>>
    /\ zscore_threshold = 2
    /\ max_buffer_size = 1
    /\ BusVarsInit
    /\ CollectorVarsInit
    /\ AggregatorVarsInit
    /\ StreamVarsInit
    /\ AnalyzerVarsInit
    /\ DetectorVarsInit
    /\ config.window_type = "session"

AggregatorInit == DispatchInit

StreamInit ==
    /\ producer_events = <<>>
    /\ max_queue_size = 1
    /\ batch_size = 1
    /\ repository_kind = "in_memory"
    /\ stored_metrics = <<>>
    /\ trend_metrics = <<>>
    /\ sample_values = <<>>
    /\ detector_metrics = <<>>
    /\ zscore_threshold = 2
    /\ BusVarsInit
    /\ CollectorVarsInit
    /\ AggregatorVarsInit
    /\ StreamVarsInit
    /\ AnalyzerVarsInit
    /\ DetectorVarsInit

AnalyzerInit ==
    /\ producer_events = <<>>
    /\ max_queue_size = 1
    /\ batch_size = 1
    /\ repository_kind = "in_memory"
    /\ stored_metrics = <<>>
    /\ max_buffer_size = 1
    /\ trend_metrics = <<>>
    /\ detector_metrics = <<>>
    /\ zscore_threshold = 2
    /\ BusVarsInit
    /\ CollectorVarsInit
    /\ AggregatorVarsInit
    /\ StreamVarsInit
    /\ config.window_type = "session"
    /\ AnalyzerVarsInit
    /\ DetectorVarsInit

DetectorInit ==
    /\ producer_events = <<>>
    /\ max_queue_size = 1
    /\ batch_size = 1
    /\ repository_kind = "in_memory"
    /\ stored_metrics = <<>>
    /\ max_buffer_size = 1
    /\ trend_metrics = <<>>
    /\ sample_values = <<>>
    /\ BusVarsInit
    /\ CollectorVarsInit
    /\ AggregatorVarsInit
    /\ StreamVarsInit
    /\ config.window_type = "session"
    /\ AnalyzerVarsInit
    /\ DetectorVarsInit

PublishSpec == PublishInit /\ [][PublishNext]_vars

DispatchSpec == DispatchInit /\ [][DispatchNext]_vars

RunSpec == DispatchInit /\ [][RunNext]_vars

CollectorSpec == CollectorInit /\ [][CollectorNext]_vars

AggregatorSpec == AggregatorInit /\ [][AggregatorNext]_vars

\* The aggregator over a filled in-memory repository.
PeriodInit ==
    /\ producer_events = <<>>
    /\ max_queue_size = 1
    /\ batch_size = 1
    /\ repository_kind = "in_memory"
    /\ max_buffer_size = 1
    /\ trend_metrics = <<>>
    /\ sample_values = <<>>
    /\ detector_metrics = <<>>
    /\ zscore_threshold = 2
    /\ BusVarsInit
    /\ CollectorVarsInit
    /\ AggregatorVarsInit
    /\ StreamVarsInit
    /\ config.window_type = "session"
    /\ AnalyzerVarsInit
    /\ DetectorVarsInit

PeriodSpec == PeriodInit /\ [][PeriodNext]_vars

\* The event loop resumes the collect_batch call whenever the save it awaits
\* has returned or raised.
PersistentSpec ==
    /\ CollectorInit
    /\ [][PersistentNext]_vars
    /\ WF_vars(collect_batch_loop)

\* Concurrent callers against a repository whose saves succeed.
InterleavedInit ==
    /\ repository_kind = "in_memory"
    /\ CollectorInit

InterleavedSpec == InterleavedInit /\ [][InterleavedNext]_vars

StreamSpec == StreamInit /\ [][StreamNext]_vars

AnalyzerSpec == AnalyzerInit /\ [][AnalyzerNext]_vars

TrendInit ==
    /\ producer_events = <<>>
    /\ max_queue_size = 1
    /\ batch_size = 1
    /\ repository_kind = "in_memory"
    /\ stored_metrics = <<>>
    /\ max_buffer_size = 1
    /\ sample_values = <<>>
    /\ detector_metrics = <<>>
    /\ zscore_threshold = 2
    /\ BusVarsInit
    /\ CollectorVarsInit
    /\ AggregatorVarsInit
    /\ StreamVarsInit
    /\ config.window_type = "session"
    /\ AnalyzerVarsInit
    /\ DetectorVarsInit

TrendSpec == TrendInit /\ [][TrendNext]_vars

DetectorSpec == DetectorInit /\ [][DetectorNext]_vars

SustainedInit ==
    /\ max_buffer_size = 1
    /\ StreamInit
    /\ config.window_type = "session"

TimerInit ==
    /\ max_buffer_size = 1
    /\ StreamInit
    /\ config.window_type \in {"sliding", "session"}

\* Time passes, and the event loop runs the process_stream task whenever
\* its get can return; nothing is assumed about the callers of add_element
\* and stop.
SustainedSpec ==
    /\ SustainedInit
    /\ [][SustainedNext]_vars
    /\ WF_vars(\E now \in Times : tick(now))
    /\ WF_vars(process_stream_iteration)

\* The same scheduling with a sliding or a session configuration.
TimerSpec ==
    /\ TimerInit
    /\ [][SustainedNext]_vars
    /\ WF_vars(\E now \in Times : tick(now))
    /\ WF_vars(process_stream_iteration)

(***************************************************************************)
(* EventBus properties.                                                    *)
(***************************************************************************)
Accepts(e) ==
    /\ publish(e)
    /\ publish_result' = "True"
    /\ event_queue' = Append(event_queue, e)

\* C1: without a clear_seen_ids in between, at most one publish of an event
\* id is accepted: an accepted event's id was not in the seen-ID set and is in
\* it afterwards, only clear_seen_ids takes ids out of the set, and a publish
\* of a valid event whose id is in the set returns False, adds exactly one to
\* duplicated and leaves the queue and published unchanged.
C1_DuplicateRejected ==
    [][/\ \A e \in Events :
            (publish(e) /\ validate(e) /\ e.event_id \in seen_event_ids)
            => /\ publish_result' = "False"
               /\ duplicated_count' = duplicated_count + 1
               /\ event_queue' = event_queue
               /\ published_count' = published_count
               /\ failed_count' = failed_count
       /\ \A e \in Events :
            Accepts(e) => (e.event_id \notin seen_event_ids
                           /\ e.event_id \in seen_event_ids')
       /\ (seen_event_ids' # {}) => (seen_event_ids \subseteq seen_event_ids')
      ]_vars

\* the same id published twice: one success, one rejection, duplicated = 1
C1_Witness ==
    /\ published_count = 1
    /\ duplicated_count = 1
    /\ failed_count = 0
    /\ publish_result = "False"
    /\ Len(event_queue) = 1

\* C2: publish of an event that fails validation returns False, adds exactly
\* one to failed, and leaves the queue, published, duplicated and the seen-ID
\* set unchanged.
C2_InvalidRejected ==
    [][\A e \in Events :
            (publish(e) /\ ~validate(e))
            => /\ publish_result' = "False"
               /\ failed_count' = failed_count + 1
               /\ event_queue' = event_queue
               /\ published_count' = published_count
               /\ duplicated_count' = duplicated_count
               /\ seen_event_ids' = seen_event_ids
      ]_vars

C2_Witness ==
    /\ failed_count = 1
    /\ published_count = 0
    /\ duplicated_count = 0
    /\ publish_result = "False"
    /\ event_queue = <<>>
    /\ seen_event_ids = {}

Resolved(event_type) ==
    {s \in Subscribers :
        \/ (event_type \in DOMAIN subscribers /\ InList(subscribers[event_type], s))
        \/ InList(all_subscribers, s)}

\* C4: whichever resolved subscribers fail in handle_event, every resolved
\* subscriber has been handed the event and dispatch does not raise.
C4_FanOutIsolation ==
    [][\A e \in DispatchedEvents, failing \in SUBSET Subscribers :
            dispatch(e, failing)
            => /\ dispatch_raised' = FALSE
               /\ \A s \in Resolved(e.event_type) : InList(received', s)
               /\ handler_errors' = failing \cap Resolved(e.event_type)
      ]_vars

\* one handler failed, another subscriber received the event after it
C4_Witness ==
    /\ handler_errors # {}
    /\ ~dispatch_raised
    /\ Len(received) >= 2
    /\ received[1] \in handler_errors
    /\ received[Len(received)] \notin handler_errors

\* C5: dispatch invokes handle_event exactly once on every subscriber
\* registered for the event's type or as a wildcard, and on no other, whatever
\* subscribe and unsubscribe calls came before.
C5_EachResolvedOnce ==
    [][\A e \in DispatchedEvents, failing \in SUBSET Subscribers :
            dispatch(e, failing)
            => \A s \in Subscribers :
                  CountIn(received', s)
                    = (IF s \in Resolved(e.event_type) THEN 1 ELSE 0)
      ]_vars

\* C6: after unsubscribe(t, s), s is not registered for t any more (t = ""
\* being the wildcard list), and the registrations for the other types are
\* unchanged.
C6_UnsubscribeRemoves ==
    [][\A t \in EventTypes \cup {""}, s \in Subscribers :
            unsubscribe(t, s)
            => IF t = ""
               THEN ~InList(all_subscribers', s) /\ subscribers' = subscribers
               ELSE /\ ~InList(subscribers'[t], s)
                    /\ all_subscribers' = all_subscribers
                    /\ \A u \in EventTypes \ {t} : subscribers'[u] = subscribers[u]
      ]_vars

(***************************************************************************)
(* MetricsCollector properties.                                            *)
(***************************************************************************)
LastSave == save_calls[Len(save_calls)]

IsPrefix(p, list) == Len(p) <= Len(list) /\ SubSeq(list, 1, Len(p)) = p

ElementsOf(list) == {list[i] : i \in 1..Len(list)}

\* C7: with a repository whose batch save succeeds, the buffer holds fewer
\* than batch_size metrics whenever no collect or collect_batch is under way,
\* and after exactly batch_size metrics were collected one by one (no other
\* call) there has been one flush, the buffer is empty and the repository
\* holds exactly these metrics.
C7_FlushThreshold ==
    (repository_kind = "in_memory")
    => /\ (lock = "free") => (Len(buffer) < batch_size)
       /\ (only_collect /\ metrics_collected = batch_size)
          => /\ batches_flushed = 1
             /\ buffer = <<>>
             /\ repository_metrics = collected
             /\ Len(repository_metrics) = batch_size

C7_Witness ==
    /\ repository_kind = "in_memory"
    /\ only_collect
    /\ batch_size >= 2
    /\ metrics_collected = batch_size
    /\ batches_flushed = 1

\* C8: with a repository that stores every batch it is given, the repository
\* contents followed by the buffer contents are the collected metrics in
\* collection order, and metrics_collected = stored + buffered.
C8_NothingLost ==
    (repository_kind = "in_memory")
    => /\ repository_metrics \o buffer = collected
       /\ metrics_collected = Len(repository_metrics) + Len(buffer)

\* two flushes of a batch larger than batch_size, a rest still buffered
C8_Witness ==
    /\ repository_kind = "in_memory"
    /\ batches_flushed >= 2
    /\ Len(buffer) >= 1
    /\ Len(repository_metrics) >= 2
    /\ lock = "collect_batch"

\* C9: a flush whose batch save raises adds exactly one to flush_errors, does
\* not add to batches_flushed, returns 0, does not raise to its caller, and
\* leaves the metrics that were buffered outside the attempted slice in the
\* buffer in their order.
C9_FailedFlush ==
    [][(/\ Len(save_calls') = Len(save_calls) + 1
        /\ save_calls'[Len(save_calls')].outcome = "raise")
       => LET attempted == ElementsOf(save_calls'[Len(save_calls')].slice)
              Other(m) == m \notin attempted
              before == buffer \o SubSeq(collected', Len(collected) + 1, Len(collected'))
          IN  /\ flush_errors' = flush_errors + 1
              /\ batches_flushed' = batches_flushed
              /\ flush_return' = 0
              /\ collector_raised' = FALSE
              /\ repository_metrics' = repository_metrics
              /\ SelectSeq(buffer', Other) = SelectSeq(before, Other)
      ]_vars

\* a failed flush of the head slice with more metrics buffered behind it
C9_Witness ==
    /\ save_calls # <<>>
    /\ LastSave.outcome = "raise"
    /\ flush_errors >= 1
    /\ flush_return = 0
    /\ Len(buffer) > Len(LastSave.slice)

C11_ShutdownDrains ==
    [][\A outcome \in {"saved", "zero", "raise"} :
            (run_cancel(outcome) /\ outcome = "saved") => buffer' = <<>>
      ]_vars

\* C12: flush() against a repository that stores what it is given leaves the
\* buffer empty and returns the number of metrics that were buffered.
C12_FlushAll ==
    [][\A outcome \in {"saved", "zero", "raise"} :
            (flush(outcome) /\ outcome = "saved")
            => /\ buffer' = <<>>
               /\ flush_return' = Len(buffer)
      ]_vars

(***************************************************************************)
(* MetricsAggregator properties.                                           *)
(***************************************************************************)
Aggregated == aggregate_result[1]

\* how many of the values are below v / at most v
CountBelow(values, v) == Cardinality({i \in 1..Len(values) : values[i] < v})

CountAtMost(values, v) == Cardinality({i \in 1..Len(values) : values[i] <= v})

StatisticNames ==
    {"count", "min_value", "max_value", "avg_value", "median_value",
     "stddev_value", "p95_value", "p99_value"}

\* C13: aggregate_period returns None when the repository yields no metric,
\* and every AggregatedMetric it returns has a count of at least 1 that is
\* the number of metrics the repository returned, with min, max, avg,
\* median, stddev, p95 and p99 all present.
C13_NeverEmptyAggregate ==
    /\ (period_metrics = <<>>) => (aggregate_result = <<>>)
    /\ (aggregate_result # <<>>)
       => /\ Aggregated.count >= 1
          /\ Aggregated.count = Len(period_metrics)
          /\ DOMAIN Aggregated = StatisticNames
          /\ Aggregated.min_value \in ElementsOf(period_metrics)
          /\ Aggregated.max_value \in ElementsOf(period_metrics)
          /\ Aggregated.avg_value.count * Aggregated.min_value
                <= Aggregated.avg_value.sum
          /\ Aggregated.avg_value.sum
                <= Aggregated.avg_value.count * Aggregated.max_value
          /\ Aggregated.stddev_value.variance_num >= 0
          /\ Aggregated.stddev_value.variance_den >= 1

\* a period without metrics, aggregated after a period that had some: None
\* is returned, and neither counter moves
C13_Witness ==
    /\ period_metrics = <<>>
    /\ aggregate_result = <<>>
    /\ aggregations_created = 1
    /\ aggregation_errors = 0

\* v is the element of rank Min(floor(percentile * n / 100), n - 1), counted
\* from 0, among the n values in ascending order
IsPercentile(values, percentile, v) ==
    LET n == Len(values)
        rank == Min((percentile * n) \div 100, n - 1)
    IN  /\ v \in ElementsOf(values)
        /\ CountBelow(values, v) <= rank
        /\ CountAtMost(values, v) >= rank + 1

\* C14: the median, p95 and p99 of an aggregate are the elements at index
\* min(floor(p * n / 100), n - 1) of the n values in ascending order for
\* p = 50, 95, 99, so that min <= median <= p95 <= p99 <= max; of the ten
\* values 10, 20, ..., 100 the median is 60 and p95 is 100.
C14_Percentiles ==
    (aggregate_result # <<>>)
    => /\ IsPercentile(period_metrics, 50, Aggregated.median_value)
       /\ IsPercentile(period_metrics, 95, Aggregated.p95_value)
       /\ IsPercentile(period_metrics, 99, Aggregated.p99_value)
       /\ Aggregated.min_value <= Aggregated.median_value
       /\ Aggregated.median_value <= Aggregated.p95_value
       /\ Aggregated.p95_value <= Aggregated.p99_value
       /\ Aggregated.p99_value <= Aggregated.max_value
       /\ (period_metrics = TestValues)
          => (Aggregated.median_value = 60 /\ Aggregated.p95_value = 100)

\* the ten values of the example have been aggregated
C14_Witness ==
    /\ aggregate_result # <<>>
    /\ period_metrics = TestValues
    /\ Aggregated.count = 10
    /\ Aggregated.median_value = 60
    /\ Aggregated.p99_value = 100

(***************************************************************************)
(* StreamProcessor properties.                                             *)
(***************************************************************************)
\* every element routed so far with the window it was put into: the open
\* windows and the lists the handler was handed
PlacementsIn(ws) ==
    UNION {{[window_id |-> ws[i].window_id, element |-> ws[i].elements[j]] :
                j \in 1..Len(ws[i].elements)} : i \in 1..Len(ws)}

Placements == PlacementsIn(windows) \cup PlacementsIn(emitted)

\* floor(ts / size) * size
bucket_start(timestamp, size) == (timestamp \div size) * size

\* C15: a tumbling router puts every element into the window whose start is
\* floor(ts / size) * size, so that two elements share a window id exactly
\* when they fall into the same size-second bucket, and the window of an
\* element satisfies window_start <= ts < window_start + size.
C15_TumblingBucket ==
    (config.window_type = "tumbling")
    => /\ \A p \in Placements :
            /\ p.window_id = bucket_start(p.element.timestamp, config.window_size_seconds)
            /\ p.window_id <= p.element.timestamp
            /\ p.element.timestamp < p.window_id + config.window_size_seconds
       /\ \A p \in Placements : \A q \in Placements :
            (p.window_id = q.window_id)
            <=> (bucket_start(p.element.timestamp, config.window_size_seconds)
                   = bucket_start(q.element.timestamp, config.window_size_seconds))

\* C16: a tumbling window is handed to the handler only once an element with
\* a timestamp at or beyond bucket_start + size has arrived, the list handed
\* over holds only elements with bucket_start <= ts < bucket_start + size,
\* and with one-minute windows nothing is emitted before an element stamped
\* at least 60 seconds after the first one has been routed.
C16_TumblingEmission ==
    (config.window_type = "tumbling")
    => /\ \A i \in 1..Len(emitted) :
            /\ \A j \in 1..Len(emitted[i].elements) :
                  /\ emitted[i].window_id <= emitted[i].elements[j].timestamp
                  /\ emitted[i].elements[j].timestamp
                       < emitted[i].window_id + config.window_size_seconds
            /\ \E p \in Placements :
                  p.element.timestamp
                    >= bucket_start(emitted[i].elements[1].timestamp,
                                    config.window_size_seconds)
                         + config.window_size_seconds
       /\ (emitted # <<>> /\ config.window_size_seconds = 60)
          => \E p \in Placements : \E first \in Placements :
                /\ first.element.n = 1
                /\ p.element.timestamp >= first.element.timestamp + 60

\* C17: a window is handed to the handler at most once, and once it has been
\* handed over and discarded no window with its id is open again.
C17_EmittedOnce ==
    /\ \A i \in 1..Len(emitted) : \A j \in 1..Len(emitted) :
          (i # j) => (emitted[i].window_id # emitted[j].window_id)
    /\ \A i \in 1..Len(emitted) : emitted[i].window_id \notin window_ids(windows)

\* the open windows an element stamped ts can join
JoinableIds(ts) ==
    {w \in window_ids(windows) :
        ts - last_timestamp(window_elements(windows, w))
          < config.inactivity_timeout_seconds}

\* consecutive elements of a list are less than the inactivity timeout apart
Gapless(elements) ==
    \A j \in 1..(Len(elements) - 1) :
        elements[j + 1].timestamp - elements[j].timestamp
          < config.inactivity_timeout_seconds

C20_SlidingShared ==
    /\ [][\A handler_raises \in BOOLEAN :
            (route_element(handler_raises) /\ config.window_type = "sliding")
            => LET element == Head(stream_buffer)
               IN  \A w \in window_ids(windows) :
                      (/\ w <= element.timestamp
                       /\ element.timestamp < w + config.window_size_seconds)
                      => element \in ElementsOf(window_elements(windows', w))
         ]_vars
    /\ []((config.window_type = "sliding")
          => \A p \in Placements : \A q \in Placements :
                (/\ p.element.timestamp <= q.element.timestamp
                 /\ q.element.timestamp - p.element.timestamp
                      < config.window_size_seconds)
                => \E w \in window_ids(windows) :
                      /\ p.element \in ElementsOf(window_elements(windows, w))
                      /\ q.element \in ElementsOf(window_elements(windows, w)))

\* the open session windows whose last element is more than the inactivity
\* timeout old
ExpiredIds ==
    {w \in window_ids(windows) :
        clock - last_timestamp(window_elements(windows, w))
          > config.inactivity_timeout_seconds}

WasEmitted(w) == \E i \in 1..Len(emitted) : emitted[i].window_id = w

SlidingIds == {t - d : t \in Times, d \in {0, 5}}

\* C21: while process_stream keeps running, every sliding window that has
\* been opened is eventually handed to the handler and removed from the
\* open windows.
C21_SlidingEventuallyEmitted ==
    \A w \in SlidingIds :
        (/\ config.window_type = "sliding"
         /\ stream_task = "waiting"
         /\ w \in window_ids(windows))
        ~> (\/ stream_task # "waiting"
            \/ /\ w \notin window_ids(windows)
               /\ \E i \in 1..Len(emitted) : emitted[i].window_id = w)

\* C22: add_element leaves the intake queue unchanged when it already holds
\* max_buffer_size elements, and the queue never holds more than
\* max_buffer_size elements.
C22_Backpressure ==
    /\ [][(add_element /\ Len(stream_buffer) >= max_buffer_size)
            => stream_buffer' = stream_buffer]_vars
    /\ [](Len(stream_buffer) <= max_buffer_size)

(***************************************************************************)
(* StatisticalAnalyzer properties.                                         *)
(***************************************************************************)
\* q is the order statistic of 0-based rank in values
IsOrderStatistic(values, rank, q) ==
    /\ q \in ElementsOf(values)
    /\ CountBelow(values, q) <= rank
    /\ CountAtMost(values, q) >= rank + 1

\* the 0-based indices of the values outside [q1 - k*iqr, q3 + k*iqr],
\* k = multiplier / 2
OutlyingIndices(values, multiplier) ==
    LET n == Len(values)
        q1 == CHOOSE q \in ElementsOf(values) : IsOrderStatistic(values, n \div 4, q)
        q3 == CHOOSE q \in ElementsOf(values) : IsOrderStatistic(values, (3 * n) \div 4, q)
    IN  {i - 1 : i \in {j \in 1..n :
            \/ 2 * values[j] < 2 * q1 - multiplier * (q3 - q1)
            \/ 2 * values[j] > 2 * q3 + multiplier * (q3 - q1)}}

\* C25: detect_outliers_iqr returns, in input order, exactly the indices of
\* the values outside [Q1 - k*IQR, Q3 + k*IQR], Q1 and Q3 being the sorted
\* values at n div 4 and 3n div 4; it returns the empty list for fewer than
\* 4 values; for 1..100 followed by 500 and k = 1.5 it returns the index of
\* 500 and no index below 97.
C25_IqrOutliers ==
    [][\A multiplier \in Multipliers :
        detect_outliers_iqr(multiplier) =>
            /\ \A k \in 1..(Len(outliers') - 1) : outliers'[k] < outliers'[k + 1]
            /\ Len(sample_values) < 4 => outliers' = <<>>
            /\ Len(sample_values) >= 4 =>
                  ElementsOf(outliers') = OutlyingIndices(sample_values, multiplier)
            /\ (sample_values = WhiskerData /\ multiplier = 3) =>
                  /\ 100 \in ElementsOf(outliers')
                  /\ \A k \in 1..Len(outliers') : outliers'[k] >= 97]_vars

C25_Witness ==
    /\ sample_values = WhiskerData
    /\ sample_multiplier = 3
    /\ analyses_performed = 1
    /\ outliers = <<100>>

(***************************************************************************)
(* AnomalyDetector properties.                                             *)
(***************************************************************************)
AnomalyKey(a) == <<a.timestamp, a.metric_name>>

\* what the four detectors return for the arguments of the last detect_all,
\* in the order z-score, IQR, change-point, threshold
Concatenation ==
    (IF "zscore" \in detect_call.methods
     THEN detect_zscore_anomalies_call(detector_metrics, zscore_threshold) ELSE <<>>)
    \o (IF "iqr" \in detect_call.methods
        THEN detect_iqr_anomalies_call(detector_metrics) ELSE <<>>)
    \o (IF "changepoint" \in detect_call.methods
        THEN detect_changepoint_anomalies_call(detector_metrics) ELSE <<>>)
    \o detect_threshold_anomalies_call(detector_metrics, detect_call.min_threshold,
                                       detect_call.max_threshold)

\* position in the list all of the first record with the key of a
FirstOfKey(all, a) ==
    CHOOSE i \in 1..Len(all) :
        /\ AnomalyKey(all[i]) = AnomalyKey(a)
        /\ \A j \in 1..(i - 1) : AnomalyKey(all[j]) # AnomalyKey(a)

SameScore(a, b) == a.anomaly_score.num * b.anomaly_score.den
                        = b.anomaly_score.num * a.anomaly_score.den

HigherScore(a, b) == a.anomaly_score.num * b.anomaly_score.den
                        > b.anomaly_score.num * a.anomaly_score.den

ZscoreExampleCall ==
    /\ detect_call.name = "detect_zscore_anomalies"
    /\ values_of(detector_metrics) = ZscoreExampleValues
    /\ zscore_threshold = 2

\* C24: with threshold 2.0 and values 10, 12, 11, 13, 9, 100 the z-score
\* detector flags exactly the value 100, with severity "high".
C24_ExampleHigh ==
    ZscoreExampleCall =>
        /\ Len(anomalies) = 1
        /\ anomalies[1].value = 100
        /\ anomalies[1].severity = "high"

\* C24, amended: the detector flags exactly the value 100, with severity
\* "low": its z-score is above 2 and not above 3 (the anomaly score z/5 is
\* between 0.4 and 0.6).
C24_ExampleLow ==
    ZscoreExampleCall =>
        /\ Len(anomalies) = 1
        /\ anomalies[1].value = 100
        /\ anomalies[1].severity = "low"
        /\ 25 * anomalies[1].anomaly_score.num > 4 * anomalies[1].anomaly_score.den
        /\ 25 * anomalies[1].anomaly_score.num <= 9 * anomalies[1].anomaly_score.den

C24_Witness ==
    /\ ZscoreExampleCall
    /\ anomalies_detected = 1
    /\ Len(anomalies) = 1
    /\ anomalies[1].method = "zscore"
    /\ anomalies[1].severity = "low"

(***************************************************************************)
(* EventBus properties: delivery and capacity.                             *)
(***************************************************************************)
\* C26: once run() has pulled an accepted event off the queue, every
\* subscriber registered for its type or as a wildcard has been invoked with
\* it: no step takes an event from the queue and leaves part of its
\* subscriber set, or all of a non-empty one, without the event.
C26_DeliveredAsUnit ==
    [][(event_queue # <<>> /\ event_queue' = Tail(event_queue))
        => ElementsOf(received') = Resolved(Head(event_queue).event_type)]_vars

\* ids of the events that were enqueued: still queued, or pulled by run()
EnqueuedIds == {event_queue[i].event_id : i \in 1..Len(event_queue)} \cup processed_at

\* C27: the seen-ID set holds only ids of events that were enqueued, and a
\* valid event that was never enqueued is accepted by publish when the queue
\* has room (the retry after a queue-full failure is not taken for a
\* duplicate).
C27_RetryAfterFull ==
    /\ [](seen_event_ids \subseteq EnqueuedIds)
    /\ [][\A e \in Events :
            (/\ publish(e)
             /\ validate(e)
             /\ e.event_id \notin EnqueuedIds
             /\ Len(event_queue) < max_queue_size)
            => /\ publish_result' = "True"
               /\ event_queue' = Append(event_queue, e)]_vars

(***************************************************************************)
(* MetricsCollector properties: failed saves, termination, interleaving.   *)
(***************************************************************************)
\* the collected metrics that are neither buffered nor stored
Unsaved ==
    ElementsOf(collected) \ (ElementsOf(buffer) \cup ElementsOf(repository_metrics))

\* C28: every repository batch save that fails, by raising or by returning
\* 0 saved, adds one to flush_errors, and no step takes metrics out of the
\* buffer that the repository did not store without flush_errors increasing.
C28_FailedSaveCounted ==
    [][/\ (/\ save_calls' # save_calls
           /\ save_calls'[Len(save_calls')].outcome \in {"zero", "raise"})
          => flush_errors' = flush_errors + 1
       /\ (Unsaved' # Unsaved) => flush_errors' > flush_errors
      ]_vars

\* C29: a collect_batch call that holds the lock eventually returns and
\* releases it, whatever the repository does.
C29_CollectBatchTerminates == (lock = "collect_batch") ~> (lock = "free")

\* every slice handed to the repository so far, returned or still pending
HandedSlices ==
    [k \in 1..(Len(save_calls) + Len(pending_saves)) |->
        IF k <= Len(save_calls) THEN save_calls[k].slice
        ELSE pending_saves[k - Len(save_calls)].slice]

\* C30: with saves that succeed, under every interleaving of collect,
\* collect_batch, flush and the run() loop at most one save is awaited at a
\* time, no metric is in the slices of two flushes, and every collected metric
\* is in the buffer or in the repository.
C30_NoRaces ==
    /\ Len(pending_saves) <= 1
    /\ \A k, l \in 1..Len(HandedSlices) :
          k # l => ElementsOf(HandedSlices[k]) \cap ElementsOf(HandedSlices[l]) = {}
    /\ ElementsOf(collected) = ElementsOf(buffer) \cup ElementsOf(repository_metrics)

\* a flush is suspended in the repository call for the second time, its slice
\* still in the buffer together with metrics that came after it
C30_Witness ==
    /\ Len(pending_saves) = 1
    /\ Len(save_calls) >= 1
    /\ run_task = "running"
    /\ Len(buffer) > Len(pending_saves[1].slice)
    /\ IsPrefix(pending_saves[1].slice, buffer)

\* the producer tasks that publish a valid event with this id
ValidProducersOf(id) ==
    {p \in DOMAIN producer_events :
        producer_events[p].event_id = id /\ validate(producer_events[p])}

ResultsOf(id, results) ==
    {p \in ValidProducersOf(id) : producer_results[p] \in results}

QueuedIds == [i \in 1..Len(event_queue) |-> event_queue[i].event_id]

Started(k) == \E i \in 1..Len(handler_tasks[k]) : handler_tasks[k][i].state # "created"

\* C32: with a single run() loop the events are handed to the subscribers in
\* the order in which publish accepted them and each accepted event at most
\* once; processed_at of an event is set before any of its handlers runs; and
\* no handler of an event starts before every handler of the events pulled
\* before it has returned or raised.
C32_DispatchOrder ==
    /\ pulled \o QueuedIds = accepted
    /\ Len(handler_tasks) = Len(pulled)
    /\ \A k \in 1..Len(pulled) :
          /\ Started(k) => pulled[k] \in processed_at
          /\ \A l \in 1..Len(pulled) :
                (k < l /\ Started(l)) => \A i \in 1..Len(handler_tasks[k]) : Finished(handler_tasks[k][i])

\* the second event is being handled by two subscribers after a handler of
\* the first event raised
C32_Witness ==
    /\ Len(pulled) = 2
    /\ pulled = accepted
    /\ handler_errors # {}
    /\ Len(handler_tasks[2]) = 2
    /\ handler_tasks[2][1].state = "done"
    /\ handler_tasks[2][2].state = "running"

\* the handle_event calls of a dispatch of e that raise
FailedCalls(e, failing) ==
    LET resolved == resolve(e.event_type, subscribers, all_subscribers)
    IN  {j \in 1..Len(resolved) : resolved[j] \in failing}

\* C33: every handle_event call that fails during a dispatch adds one to a
\* failure counter that get_stats reports (failed is the only such counter).
C33_HandlerFailureCounted ==
    [][\A e \in DispatchedEvents, failing \in SUBSET Subscribers :
            dispatch(e, failing)
            => failed_count' = failed_count + Cardinality(FailedCalls(e, failing))
      ]_vars

\* C34: a window handler that raises does not stop process_stream, on the
\* routing path or in the idle sweep: the failure is counted in errors and
\* the task is not ended by the exception.
C34_HandlerFailureSurvived ==
    [][(route_element(TRUE) \/ check_expired_windows(TRUE))
       => /\ stream_errors' = stream_errors + 1
          /\ stream_task' # "raised"
      ]_vars

\* C35: once stop() has been called on a StreamProcessor, a task in
\* process_stream ends, whether stop() came before or after the task
\* entered process_stream.
C35_StopTerminates ==
    (stop_called /\ stream_task = "waiting")
        ~> (stream_task \in {"returned", "raised"})

InArrivalOrder(elements) ==
    \A i, j \in 1..Len(elements) : i < j => elements[i].n < elements[j].n

\* C36: the elements of a window are listed in the order in which
\* add_element accepted them, in every window that is open and in every list
\* handed to the handler, for tumbling, sliding and session windows.
C36_ArrivalOrder ==
    /\ \A i \in 1..Len(windows) : InArrivalOrder(windows[i].elements)
    /\ \A i \in 1..Len(emitted) : InArrivalOrder(emitted[i].elements)

\* the handler has been given a window of three elements and the task goes on
C36_Witness ==
    /\ \E i \in 1..Len(emitted) : Len(emitted[i].elements) = 3
    /\ elements_processed = 3
    /\ stream_task = "waiting"

\* a series too short for the IQR helper, or with q1 = q3 (a series of equal
\* values among them)
DegenerateSample ==
    \/ Len(sample_values) < 4
    \/ descriptive_stats(sample_values)[1].iqr = 0

\* C37: on degenerate input (fewer values than the minimum sample size, zero
\* variance, zero IQR) the outlier and anomaly detectors flag no point;
\* stated here for detect_outliers_iqr.
C37_DegenerateFlagsNothing ==
    (sample_multiplier # 0 /\ DegenerateSample) => outliers = <<>>

\* the least-squares slope of the values against their ordinal index, as the
\* fraction num/den of the closed form
LeastSquaresSlope(values) ==
    LET n == Len(values)
        sx == sum([i \in 1..n |-> i - 1])
        sxx == sum([i \in 1..n |-> (i - 1) * (i - 1)])
        sy == sum(values)
        sxy == sum([i \in 1..n |-> (i - 1) * values[i]])
    IN  [num |-> n * sxy - sx * sy, den |-> n * sxx - sx * sx]

\* C38: for a series of at least 3 metrics detect_trend returns a TrendResult
\* whose trend_strength lies in [0, 1], whose slope is the least-squares slope
\* and whose direction is stable iff |slope| < 0.01, increasing iff
\* slope >= 0.01 and decreasing iff slope <= -0.01.
C38_TrendStrength ==
    (trend_result.returned # "not_called" /\ Len(trend_metrics) >= 3)
    => /\ trend_result.returned = "TrendResult"
       /\ 0 <= trend_result.trend_strength.num
       /\ trend_result.trend_strength.num <= trend_result.trend_strength.den
       /\ LET slope == LeastSquaresSlope(trend_metrics)
          IN  /\ trend_result.slope.num * slope.den = slope.num * trend_result.slope.den
              /\ trend_result.trend_type = "stable" <=> 100 * abs(slope.num) < slope.den
              /\ trend_result.trend_type = "increasing" <=> 100 * slope.num >= slope.den
              /\ trend_result.trend_type = "decreasing" <=> 100 * slope.num <= -slope.den

\* C39: aggregation periods are half-open.  For the results of two adjacent
\* periods [a, b) and [b, c), every stored metric with a <= timestamp < c is
\* among the metrics of exactly one of them, a metric stamped exactly b only
\* of the second, and each count is the number of its metrics.
C39_HalfOpenPeriods ==
    \A first, second \in period_results :
        first.period_end = second.period_start
        => /\ first.count = Cardinality(first.members)
           /\ second.count = Cardinality(second.members)
           /\ \A i \in 1..Len(stored_metrics) :
                 LET t == stored_metrics[i].timestamp
                 IN  /\ (first.period_start <= t /\ t < second.period_end)
                        => (i \in first.members) # (i \in second.members)
                     /\ t = second.period_start
                        => (i \notin first.members /\ i \in second.members)

PublishCalls == {p \in DOMAIN producer_results : producer_results[p] # "pending"}

\* C40: in every reachable state of the bus published + duplicated + failed
\* is the number of publish calls made so far, published is the number of
\* events ever enqueued, and the reported queue_size is published minus the
\* number of events pulled from the queue; every publish call changes exactly
\* one of the three counters, by one.
C40_StatsInvariant ==
    /\ [](/\ get_stats.published + get_stats.duplicated + get_stats.failed
              = Cardinality(PublishCalls)
           /\ get_stats.published = Len(accepted)
           /\ get_stats.queue_size = get_stats.published - Len(pulled))
    /\ [][\A p \in Producers :
            produce(p)
            => \E counter \in {"published", "duplicated", "failed"} :
                  /\ get_stats'[counter] = get_stats[counter] + 1
                  /\ \A other \in {"published", "duplicated", "failed"} \ {counter} :
                        get_stats'[other] = get_stats[other]
         ]_vars

\* every counter has moved and an event has been pulled
C40_Witness ==
    /\ get_stats.published >= 1
    /\ get_stats.duplicated >= 1
    /\ get_stats.failed >= 1
    /\ Len(pulled) >= 1

====
